---- MODULE Spec2Model ----
(***************************************************************************)
(* Client-side state synchronisation of the task-board client: the zustand *)
(* stores useTaskStore (TaskCache) and useBoardStore (BoardCache), the     *)
(* Dashboard wiring that drives them, the permission resolution computed   *)
(* in Dashboard, and the REST backend they talk to.                        *)
(*                                                                         *)
(* Every store method that awaits a network call is split at its await:    *)
(* the part before it is the issuing action, the backend's handling of the *)
(* request is ServerProcess, and the part after the await is a Deliver     *)
(* action (the try branch) or a Fail action (the catch branch).  Requests  *)
(* in flight sit in the slots of inflight; any of them may be handled      *)
(* next, so responses can arrive in any order.                             *)
(*                                                                         *)
(* Of a task the model keeps id, boardId, name, status and assignedTo.     *)
(* The per-task assignee sub-fetches of fetchTasksByBoard only rewrite     *)
(* assignedTo of tasks already cached, with the assignees the backend      *)
(* holds for them, and are left out.                                       *)
(***************************************************************************)
EXTENDS Naturals, Sequences, FiniteSets, TLC

VARIABLES
  srvTasks,       \* backend: the tasks it stores, in its canonical order
  srvCreated,     \* backend: how many task ids it has handed out
  srvBoards,      \* backend: the boards, each with its membership
  srvBoardsCreated, \* backend: how many board ids it has handed out
  tasks,          \* useTaskStore.tasks
  boardId,        \* useTaskStore.boardId
  boards,         \* useBoardStore.boards
  activeBoardId,  \* useBoardStore.activeBoardId
  currentUser,    \* useAuthStore.user.id
  inflight,       \* the network calls awaiting their settlement, by slot
  anyFailed,      \* history: some network call has failed
  ops,            \* history: how many user operations have been issued
  last,           \* history: the client step taken last, with its network call
  taskError,      \* useTaskStore.error
  boardError,     \* useBoardStore.error
  thrown,         \* the store method that settled last threw to its caller
  modal,          \* the task dialog of the Dashboard: selectedTask and the form
  rendered        \* the tasks the Dashboard rendered last, which the handlers of
                  \* SpecRender close over; the other specifications run every
                  \* handler against the tasks of the store

vars == <<srvTasks, srvCreated, srvBoards, srvBoardsCreated, tasks, boardId, boards,
          activeBoardId, currentUser, inflight, anyFailed, ops, last,
          taskError, boardError, thrown, modal, rendered>>

----------------------------------------------------------------------------
(* Bounds of the model *)

MaxInflight == 2    \* network calls in flight together
MaxCreate == 1      \* tasks the backend creates during a run
MaxMembers == 2     \* length of a board's members list
MaxOps == 3         \* user operations issued during a run
MaxPermOps == 1     \* drops attempted during a run of SpecPerm
MaxBoardCreate == 1 \* boards the backend creates during a run
MaxLane == 3        \* positions of a lane a task is moved between
MaxMutOps == 1      \* mutation methods called during a run of SpecMut
MaxSaves == 1       \* saves of the task dialog during a run of SpecSave

----------------------------------------------------------------------------
(* Values *)

NoBoard == "null"
NoUser == "null"
\* A boardId that is the empty string: falsy, as null is
EmptyBoardId == ""

Statuses == {"TODO", "IN_PROGRESS", "DONE"}
Roles == {"OWNER", "EDITOR", "VIEWER"}
BoardIds == {"b1", "b2"}
Users == {"u1", "u2", "u3"}
Names == {"X", "Y"}
NewIds == <<"t3", "t4", "t5">>
Slots == 1..MaxInflight

\* A task that nobody is assigned to
Task(i, b, n, st) == [id |-> i, boardId |-> b, name |-> n, status |-> st, assignedTo |-> <<>>]

\* ApiTask: a task as a response carries it; assignedTo may be missing
WireTask(t, withAssignees) ==
  [id |-> t.id, boardId |-> t.boardId, name |-> t.name, status |-> t.status,
   hasAssignedTo |-> withAssignees,
   assignedTo |-> IF withAssignees THEN t.assignedTo ELSE <<>>]

Member(u, r) == [userId |-> u, role |-> r]

Board(i, n, o, ms) == [id |-> i, name |-> n, ownerId |-> o, members |-> ms]

----------------------------------------------------------------------------
(* Sequence helpers: Array.prototype.map / filter / find *)

Map(seq, F(_)) == [i \in DOMAIN seq |-> F(seq[i])]

Filter(seq, P(_)) == SelectSeq(seq, P)

Has(seq, P(_)) == \E i \in DOMAIN seq : P(seq[i])

Find(seq, P(_)) == seq[CHOOSE i \in DOMAIN seq : P(seq[i]) /\ \A j \in DOMAIN seq : P(seq[j]) => i <= j]

Ids(seq) == {seq[i].id : i \in DOMAIN seq}

HasTask(seq, id) == \E i \in DOMAIN seq : seq[i].id = id

TaskOf(seq, id) == seq[CHOOSE i \in DOMAIN seq : seq[i].id = id /\ \A j \in DOMAIN seq : seq[j].id = id => i <= j]

StatusOf(seq, id) == IF HasTask(seq, id) THEN TaskOf(seq, id).status ELSE "absent"

----------------------------------------------------------------------------
(* Network calls in flight *)

\* undefined, null and the empty string of the source
Undefined == "undefined"
Null == "null"
Empty == ""

\* if (v): undefined, null and "" are falsy
Truthy(v) == v \notin {Undefined, Null, Empty}

\* The fields a task dialog may change: Partial<Task> with name, description
\* and deadline, each present or not (updates.x !== undefined)
Updates(hasN, n, hasD, d, hasDl, dl) ==
  [hasName |-> hasN, name |-> IF hasN THEN n ELSE Undefined,
   hasDescription |-> hasD, description |-> IF hasD THEN d ELSE Undefined,
   hasDeadline |-> hasDl, deadline |-> IF hasDl THEN dl ELSE Undefined]

\* The body of a call that has none the model keeps
NoBody == Updates(FALSE, Undefined, FALSE, Undefined, FALSE, Undefined)

\* No task dialog is open: selectedTask is null
NoModal == [open |-> FALSE]

NoReq == [kind |-> "none", phase |-> "none", board |-> NoBoard, task |-> "none",
          name |-> "none", status |-> "none", payload |-> <<>>,
          origin |-> "none", pre |-> "none", dirty |-> FALSE, body |-> NoBody,
          text |-> <<>>]

Req(k, b, t, n, st, o, p) == [kind |-> k, phase |-> "sent", board |-> b, task |-> t,
          name |-> n, status |-> st, payload |-> <<>>,
          origin |-> o, pre |-> p, dirty |-> FALSE, body |-> NoBody,
          text |-> <<>>]

HasFree(infl) == \E s \in Slots : infl[s].kind = "none"

FreeSlot(infl) == CHOOSE s \in Slots : infl[s].kind = "none" /\ \A r \in Slots : infl[r].kind = "none" => s <= r

Put(infl, req) == [infl EXCEPT ![FreeSlot(infl)] = req]

Clear(infl, s) == [infl EXCEPT ![s] = NoReq]

Quiescent == \A s \in Slots : inflight[s].kind = "none"

\* History kept with a pending status call: has the cached status of its task
\* been changed by another settlement since the call was issued.
Touched(infl, old, new) == [s \in Slots |->
    IF infl[s].kind = "status" /\ StatusOf(old, infl[s].task) # StatusOf(new, infl[s].task)
    THEN [infl[s] EXCEPT !.dirty = TRUE]
    ELSE infl[s]]

\* The record of a client step: "issue" (a method ran up to its await), "ok"
\* (its try branch ran), "fail" (its catch branch ran), "blocked" (a handler
\* returned at its guard).
Ev(e, r) == [ev |-> e, req |-> r]

----------------------------------------------------------------------------
(* The error state of the stores, and what a failed call does to its caller *)

\* error: null
NoError == "null"

\* error?.response?.data?.message || "Failed to ...": some message
ErrorMessage(kind) == "Failed"

\* The catch branch of a task store method: fetchTasksByBoard, createTask,
\* updateTask, updateTaskStatus and deleteTask set error and rethrow;
\* setTaskAssignees and reorderColumn show a toast and rethrow.
taskCatch(kind, err) ==
  IF kind \in {"fetch", "create", "update", "status", "delete"}
  THEN [error |-> ErrorMessage(kind), thrown |-> TRUE]
  ELSE [error |-> err, thrown |-> TRUE]

\* A failed call of a board store method: createBoard, renameBoard and
\* deleteBoard set error in their catch and rethrow; fetchBoards,
\* fetchBoardMembers, shareBoard, updateMemberRole and removeMember have no
\* catch, the rejection reaches the caller as it is.
boardCatch(kind, err) ==
  IF kind \in {"createBoard", "renameBoard", "deleteBoard"}
  THEN [error |-> ErrorMessage(kind), thrown |-> TRUE]
  ELSE [error |-> err, thrown |-> TRUE]

----------------------------------------------------------------------------
(* Permission resolution, as Dashboard computes it on every render *)

UndefinedBoard == Board("undefined", "undefined", "undefined", <<>>)

\* useBoardStore.getActiveBoard
getActiveBoard(bs, active) ==
  IF Len(bs) = 0 THEN UndefinedBoard
  ELSE IF Has(bs, LAMBDA b : b.id = active) THEN Find(bs, LAMBDA b : b.id = active)
  ELSE bs[1]

isOwnerById(board, user) == board.ownerId = user

\* Faulty variant of userRole: the fallback for an unlisted non-owner grants EDITOR
userRole_DefaultEditor(board, user) ==
  IF Has(board.members, LAMBDA m : m.userId = user)
  THEN Find(board.members, LAMBDA m : m.userId = user).role
  ELSE IF isOwnerById(board, user) THEN "OWNER" ELSE "EDITOR"

\* members.find((m) => m.userId === currentUser?.id)?.role ?? (isOwnerById ? "OWNER" : "VIEWER")
userRole(board, user) ==
  IF Has(board.members, LAMBDA m : m.userId = user)
  THEN Find(board.members, LAMBDA m : m.userId = user).role
  ELSE IF isOwnerById(board, user) THEN "OWNER" ELSE "VIEWER"

canModify(board, user) == userRole(board, user) \in {"OWNER", "EDITOR"}

isOwner(board, user) == userRole(board, user) = "OWNER"

activeBoard == getActiveBoard(boards, activeBoardId)

----------------------------------------------------------------------------
(* useTaskStore: the synchronous part of each method, up to its await *)

\* Faulty variant of fetchBegin: the GET is not sent
fetchBegin_Skipped(infl, b) == infl

\* fetchTasksByBoard(b), b non-empty, up to the GET: the calls then in flight
\* (the caller sets the store's boardId to b).
fetchBegin(infl, b) == Put(infl, Req("fetch", b, "none", "none", "none", "none", "none"))

\* Sidebar: setActiveBoardId(b), and the Dashboard effect it triggers, which
\* calls fetchTasksByBoard(b) when activeBoardId changed to a non-empty id.
SetActiveBoard(b) ==
  /\ ops < MaxOps
  /\ Has(boards, LAMBDA x : x.id = b)
  /\ b # activeBoardId
  /\ HasFree(inflight)
  /\ activeBoardId' = b
  /\ boardId' = b
  /\ inflight' = fetchBegin(inflight, b)
  /\ last' = Ev("issue", Req("fetch", b, "none", "none", "none", "none", "none"))
  /\ ops' = ops + 1
  /\ taskError' = NoError
  /\ thrown' = FALSE
  /\ UNCHANGED <<srvTasks, srvCreated, srvBoards, srvBoardsCreated, tasks, boards, currentUser, anyFailed,
                 boardError, modal, rendered>>

\* Faulty variant of updateTaskStatusBegin: returns early, with no PATCH, when the
\* cached status already is st
updateTaskStatusBegin_ShortCircuit(cur, t, st, origin, closure) ==
  IF StatusOf(cur, t) = st THEN NoReq
  ELSE Req("status", closure, t, "none", st, origin, StatusOf(cur, t))

\* updateTaskStatus(t, st) up to the PATCH: the request it sends.  Nothing is
\* written to tasks before the await.  pre is the cached status at the call.
updateTaskStatusBegin(cur, t, st, origin, closure) ==
  Req("status", closure, t, "none", st, origin, StatusOf(cur, t))

\* Faulty variant of updateTaskStatusBeforeAwait: the status is flipped before the PATCH
updateTaskStatusBeforeAwait_Flip(cur, t, st) ==
  Map(cur, LAMBDA x : IF x.id = t THEN [x EXCEPT !.status = st] ELSE x)

\* updateTaskStatus(t, st) before its await: set({ isLoading: true, error: null }),
\* which leaves tasks as it is.
updateTaskStatusBeforeAwait(cur, t, st) == cur

\* Faulty variant of handleDropAllowed: the canModify guard is missing
handleDropAllowed_Always(board, user) == TRUE

\* TaskList.handleDrop(t dropped on lane st) -> onUpdateStatus -> updateTaskStatus.
\* The closure of onUpdateStatus holds the activeBoardId of the render.
\* handleDrop returns at once unless canModify.
handleDropAllowed(board, user) == canModify(board, user)

Drop(t, st) ==
  /\ ops < MaxOps
  /\ HasTask(tasks, t)
  /\ HasFree(inflight)
  /\ ops' = ops + 1
  /\ IF handleDropAllowed(activeBoard, currentUser)
     THEN LET r == updateTaskStatusBegin(tasks, t, st, "drop", activeBoardId)
          IN /\ tasks' = updateTaskStatusBeforeAwait(tasks, t, st)
             /\ inflight' = Put(Touched(inflight, tasks, tasks'), r)
             /\ last' = Ev("issue", r)
     ELSE /\ tasks' = tasks
          /\ inflight' = inflight
          /\ last' = Ev("blocked", Req("status", activeBoardId, t, "none", st, "drop", StatusOf(tasks, t)))
  /\ taskError' = IF handleDropAllowed(activeBoard, currentUser) THEN NoError ELSE taskError
  /\ thrown' = FALSE
  /\ UNCHANGED <<srvTasks, srvCreated, srvBoards, srvBoardsCreated, boardId, boards,
                 activeBoardId, currentUser, anyFailed,
                 boardError, modal, rendered>>

PendingCreates == Cardinality({s \in Slots : inflight[s].kind = "create" /\ inflight[s].phase = "sent"})

\* Dashboard.handleAddTask -> createTask(activeBoardId, n), up to the POST
AddTask(n) ==
  /\ ops < MaxOps
  /\ canModify(activeBoard, currentUser)
  /\ activeBoardId # NoBoard
  /\ HasFree(inflight)
  /\ srvCreated + PendingCreates < MaxCreate
  /\ LET r == Req("create", activeBoardId, "none", n, "none", "none", "none")
     IN /\ inflight' = Put(inflight, r)
        /\ last' = Ev("issue", r)
  /\ ops' = ops + 1
  /\ taskError' = NoError
  /\ thrown' = FALSE
  /\ UNCHANGED <<srvTasks, srvCreated, srvBoards, srvBoardsCreated, tasks, boardId, boards,
                 activeBoardId, currentUser, anyFailed,
                 boardError, modal, rendered>>

\* updateTask, the body of the PATCH: if (updates.x !== undefined) payload.x = updates.x
updateTaskPayload(updates) ==
  Updates(updates.name # Undefined, updates.name,
          updates.description # Undefined, updates.description,
          updates.deadline # Undefined, updates.deadline)

\* Dashboard.updateTask -> useTaskStore.updateTask(t, {name: n}), up to the PATCH
UpdateTask(t, n) ==
  /\ ops < MaxOps
  /\ canModify(activeBoard, currentUser)
  /\ HasTask(tasks, t)
  /\ HasFree(inflight)
  /\ LET r == [Req("update", NoBoard, t, n, "none", "none", "none")
                 EXCEPT !.body = updateTaskPayload(
                                   Updates(TRUE, n, FALSE, Undefined, FALSE, Undefined))]
     IN /\ inflight' = Put(inflight, r)
        /\ last' = Ev("issue", r)
  /\ ops' = ops + 1
  /\ taskError' = NoError
  /\ thrown' = FALSE
  /\ UNCHANGED <<srvTasks, srvCreated, srvBoards, srvBoardsCreated, tasks, boardId, boards,
                 activeBoardId, currentUser, anyFailed,
                 boardError, modal, rendered>>

\* Dashboard.deleteTask -> useTaskStore.deleteTask(t), up to the DELETE
DeleteTask(t) ==
  /\ ops < MaxOps
  /\ canModify(activeBoard, currentUser)
  /\ HasTask(tasks, t)
  /\ HasFree(inflight)
  /\ LET r == Req("delete", NoBoard, t, "none", "none", "none", "none")
     IN /\ inflight' = Put(inflight, r)
        /\ last' = Ev("issue", r)
  /\ ops' = ops + 1
  /\ taskError' = NoError
  /\ thrown' = FALSE
  /\ UNCHANGED <<srvTasks, srvCreated, srvBoards, srvBoardsCreated, tasks, boardId, boards,
                 activeBoardId, currentUser, anyFailed,
                 boardError, modal, rendered>>

----------------------------------------------------------------------------
(* The backend: it handles the request of a slot and leaves the response   *)
(* (phase "ok") for the client.  A request it cannot serve, or one the     *)
(* network loses, is settled by the Fail action of the caller instead.     *)

Respond(s, data) == [inflight EXCEPT ![s].phase = "ok", ![s].payload = data]

\* GET tasks/board/{boardId}, from a backend that lists the tasks with
\* (withAssignees) or without their assignedTo
ServerFetchAs(s, withAssignees) ==
  /\ inflight[s].kind = "fetch" /\ inflight[s].phase = "sent"
  /\ inflight' = Respond(s, Map(Filter(srvTasks, LAMBDA t : t.boardId = inflight[s].board),
                                LAMBDA t : WireTask(t, withAssignees)))
  /\ UNCHANGED <<srvTasks, srvCreated, srvBoards, srvBoardsCreated, tasks, boardId, boards,
                 activeBoardId, currentUser, anyFailed, ops, last,
                 taskError, boardError, thrown, modal, rendered>>

ServerFetch(s) == ServerFetchAs(s, TRUE)

\* POST tasks {boardId, name}: the backend is the id authority; new tasks start in TODO
ServerCreateAs(s, withAssignees) ==
  /\ inflight[s].kind = "create" /\ inflight[s].phase = "sent"
  /\ srvCreated < MaxCreate
  /\ LET created == Task(NewIds[srvCreated + 1], inflight[s].board, inflight[s].name, "TODO")
     IN /\ srvTasks' = Append(srvTasks, created)
        /\ inflight' = Respond(s, <<WireTask(created, withAssignees)>>)
  /\ srvCreated' = srvCreated + 1
  /\ UNCHANGED <<srvBoards, srvBoardsCreated, tasks, boardId, boards, activeBoardId, currentUser,
                 anyFailed, ops, last,
                 taskError, boardError, thrown, modal, rendered>>

ServerCreate(s) == ServerCreateAs(s, TRUE)

\* PATCH tasks/{id} {name, ...}: a name that is sent is stored; answers with
\* the whole task as stored
ServerUpdate(s) ==
  /\ inflight[s].kind = "update" /\ inflight[s].phase = "sent"
  /\ HasTask(srvTasks, inflight[s].task)
  /\ LET stored == TaskOf(srvTasks, inflight[s].task)
         updated == [stored EXCEPT !.name = IF inflight[s].name = "none" THEN stored.name
                                            ELSE inflight[s].name]
     IN /\ srvTasks' = Map(srvTasks, LAMBDA t : IF t.id = inflight[s].task THEN updated ELSE t)
        /\ inflight' = Respond(s, <<WireTask(updated, TRUE)>>)
  /\ UNCHANGED <<srvCreated, srvBoards, srvBoardsCreated, tasks, boardId, boards, activeBoardId,
                 currentUser, anyFailed, ops, last,
                 taskError, boardError, thrown, modal, rendered>>

\* PATCH tasks/{id}/status {status}
ServerStatus(s) ==
  /\ inflight[s].kind = "status" /\ inflight[s].phase = "sent"
  /\ HasTask(srvTasks, inflight[s].task)
  /\ srvTasks' = Map(srvTasks, LAMBDA t : IF t.id = inflight[s].task
                                         THEN [t EXCEPT !.status = inflight[s].status] ELSE t)
  /\ inflight' = Respond(s, <<>>)
  /\ UNCHANGED <<srvCreated, srvBoards, srvBoardsCreated, tasks, boardId, boards, activeBoardId,
                 currentUser, anyFailed, ops, last,
                 taskError, boardError, thrown, modal, rendered>>

\* DELETE tasks/{id}
ServerDelete(s) ==
  /\ inflight[s].kind = "delete" /\ inflight[s].phase = "sent"
  /\ HasTask(srvTasks, inflight[s].task)
  /\ srvTasks' = Filter(srvTasks, LAMBDA t : t.id # inflight[s].task)
  /\ inflight' = Respond(s, <<>>)
  /\ UNCHANGED <<srvCreated, srvBoards, srvBoardsCreated, tasks, boardId, boards, activeBoardId,
                 currentUser, anyFailed, ops, last,
                 taskError, boardError, thrown, modal, rendered>>

----------------------------------------------------------------------------
(* useTaskStore: the part of each method after its await *)

\* The calls left in flight once slot s has settled and the cache holds new
Settle(s, new) == Touched(Clear(inflight, s), tasks, new)

\* mapApiTaskToUiTask: assignedTo: t.assignedTo || []
mapApiTaskToUiTask(t) ==
  [id |-> t.id, boardId |-> t.boardId, name |-> t.name, status |-> t.status,
   assignedTo |-> IF t.hasAssignedTo THEN t.assignedTo ELSE <<>>]

\* fetchTasksByBoard, try branch: set({ tasks, isLoading: false }), whatever
\* board the response is for and whatever board is active by now.
fetchTasksApply(cur, payload, reqBoard, active) == Map(payload, mapApiTaskToUiTask)

DeliverFetch(s) ==
  /\ inflight[s].kind = "fetch" /\ inflight[s].phase = "ok"
  /\ tasks' = fetchTasksApply(tasks, inflight[s].payload, inflight[s].board, activeBoardId)
  /\ inflight' = Settle(s, tasks')
  /\ last' = Ev("ok", inflight[s])
  /\ thrown' = FALSE
  /\ UNCHANGED <<srvTasks, srvCreated, srvBoards, srvBoardsCreated, boardId, boards, activeBoardId,
                 currentUser, anyFailed, ops,
                 taskError, boardError, modal, rendered>>

\* Faulty variant of createTaskApply: the created task is put at the end
createTaskApply_Appends(cur, created) == cur \o <<mapApiTaskToUiTask(created)>>

\* createTask, try branch: set({ tasks: [uiTask, ...get().tasks] })
createTaskApply(cur, created) == <<mapApiTaskToUiTask(created)>> \o cur

DeliverCreate(s) ==
  /\ inflight[s].kind = "create" /\ inflight[s].phase = "ok"
  /\ tasks' = createTaskApply(tasks, inflight[s].payload[1])
  /\ inflight' = Settle(s, tasks')
  /\ last' = Ev("ok", inflight[s])
  /\ thrown' = FALSE
  /\ UNCHANGED <<srvTasks, srvCreated, srvBoards, srvBoardsCreated, boardId, boards, activeBoardId,
                 currentUser, anyFailed, ops,
                 taskError, boardError, modal, rendered>>

\* Faulty variant of updateTaskApply: the response is dropped, the cache stays
updateTaskApply_KeepsCache(cur, id, updated) == cur

\* updateTask, try branch: the cached entry is overwritten with the response's task
\* (assignedTo: updatedApiTask.assignedTo || currentTask?.assignedTo || [])
updateTaskApply(cur, id, updated) ==
  LET updatedUiTask ==
        [id |-> updated.id, boardId |-> updated.boardId, name |-> updated.name,
         status |-> updated.status,
         assignedTo |-> IF updated.hasAssignedTo THEN updated.assignedTo
                        ELSE IF HasTask(cur, id) THEN TaskOf(cur, id).assignedTo
                        ELSE <<>>]
  IN Map(cur, LAMBDA t : IF t.id = id THEN updatedUiTask ELSE t)

DeliverUpdate(s) ==
  /\ inflight[s].kind = "update" /\ inflight[s].phase = "ok"
  /\ tasks' = updateTaskApply(tasks, inflight[s].task, inflight[s].payload[1])
  /\ inflight' = Settle(s, tasks')
  /\ last' = Ev("ok", inflight[s])
  /\ thrown' = FALSE
  /\ UNCHANGED <<srvTasks, srvCreated, srvBoards, srvBoardsCreated, boardId, boards, activeBoardId,
                 currentUser, anyFailed, ops,
                 taskError, boardError, modal, rendered>>

\* updateTaskStatus, try branch: the status is written once the PATCH has succeeded
updateTaskStatusApply(cur, id, st) ==
  Map(cur, LAMBDA t : IF t.id = id THEN [t EXCEPT !.status = st] ELSE t)

\* onUpdateStatus then goes on: if (activeBoardId) await fetchTasksByBoard(activeBoardId),
\* with the activeBoardId its closure captured.
DeliverStatus(s) ==
  /\ inflight[s].kind = "status" /\ inflight[s].phase = "ok"
  /\ tasks' = updateTaskStatusApply(tasks, inflight[s].task, inflight[s].status)
  /\ IF inflight[s].origin = "drop" /\ inflight[s].board # NoBoard
     THEN /\ boardId' = inflight[s].board
          /\ inflight' = fetchBegin(Settle(s, tasks'), inflight[s].board)
     ELSE /\ boardId' = boardId
          /\ inflight' = Settle(s, tasks')
  /\ last' = Ev("ok", inflight[s])
  /\ taskError' = IF inflight[s].origin = "drop" /\ inflight[s].board # NoBoard THEN NoError ELSE taskError
  /\ thrown' = FALSE
  /\ UNCHANGED <<srvTasks, srvCreated, srvBoards, srvBoardsCreated, boards, activeBoardId,
                 currentUser, anyFailed, ops,
                 boardError, modal, rendered>>

\* Faulty variant of deleteTaskApply: the filter keeps the deleted task only
deleteTaskApply_InvertedFilter(cur, id) == Filter(cur, LAMBDA t : t.id = id)

\* deleteTask, try branch
deleteTaskApply(cur, id) == Filter(cur, LAMBDA t : t.id # id)

DeliverDelete(s) ==
  /\ inflight[s].kind = "delete" /\ inflight[s].phase = "ok"
  /\ tasks' = deleteTaskApply(tasks, inflight[s].task)
  /\ inflight' = Settle(s, tasks')
  /\ last' = Ev("ok", inflight[s])
  /\ thrown' = FALSE
  /\ UNCHANGED <<srvTasks, srvCreated, srvBoards, srvBoardsCreated, boardId, boards, activeBoardId,
                 currentUser, anyFailed, ops,
                 taskError, boardError, modal, rendered>>

\* Faulty variant of failApply: a failed status update is written to tasks all the same
failApply_WritesStatus(cur, req) ==
  IF req.kind = "status" THEN updateTaskStatusApply(cur, req.task, req.status) ELSE cur

\* The catch branch of fetchTasksByBoard, createTask, updateTask, updateTaskStatus
\* and deleteTask: the error is recorded and rethrown, tasks is not written.
failApply(cur, req) == cur

FailTask(s) ==
  /\ inflight[s].kind \in {"fetch", "create", "update", "status", "delete"}
  /\ inflight[s].phase = "sent"
  /\ tasks' = failApply(tasks, inflight[s])
  /\ inflight' = Settle(s, tasks')
  /\ last' = Ev("fail", inflight[s])
  /\ anyFailed' = TRUE
  /\ taskError' = taskCatch(inflight[s].kind, taskError).error
  /\ thrown' = taskCatch(inflight[s].kind, taskError).thrown
  /\ UNCHANGED <<srvTasks, srvCreated, srvBoards, srvBoardsCreated, boardId, boards, activeBoardId,
                 currentUser, ops,
                 boardError, modal, rendered>>

----------------------------------------------------------------------------
(* Reordering a lane: Dashboard.handleReorderSameColumn and reorderColumn *)

\* The tasks a lane shows: tasks.filter((t) => t.status === status)
Lane(cur, st) == Filter(cur, LAMBDA t : t.status = st)

LaneIds(cur, st) == [i \in DOMAIN Lane(cur, st) |-> Lane(cur, st)[i].id]

RemoveAt(order, i) == SubSeq(order, 1, i - 1) \o SubSeq(order, i + 1, Len(order))

InsertAt(order, i, x) == SubSeq(order, 1, i - 1) \o <<x>> \o SubSeq(order, i, Len(order))

\* The id sequence the lane hands to onReorderSameColumn when the task at
\* position from is dropped at position to: removed, then reinserted
moveWithinLane(order, from, to) == InsertAt(RemoveAt(order, from), to, order[from])

\* new Map(tasks.map((t) => [t.id, t])).get(id): the last entry under an id wins
idToTask(cur, id) ==
  cur[CHOOSE i \in DOMAIN cur : cur[i].id = id /\ \A j \in DOMAIN cur : cur[j].id = id => j <= i]

\* handleReorderSameColumn: setTasks([...others, ...reordered])
handleReorderSameColumnApply(cur, st, orderedIds) ==
  LET known == SelectSeq(orderedIds, LAMBDA id : HasTask(cur, id))
      reordered == [i \in DOMAIN known |-> idToTask(cur, known[i])]
      others == Filter(cur, LAMBDA t : t.status # st)
  IN others \o reordered

\* reorderColumn(b, st, ids) up to the PATCH: returns at once without a board
\* or without ids
reorderColumnBegin(b, st, ids) ==
  IF b = NoBoard \/ b = EmptyBoardId \/ ids = <<>> THEN NoReq
  ELSE [Req("reorder", b, "none", "none", st, "none", "none") EXCEPT !.payload = ids]

\* A member who may modify drops the task at position from of lane st at
\* position to of the same lane -> handleReorderSameColumn(st, orderedIds)
Reorder(st, from, to) ==
  /\ ops < MaxOps
  /\ canModify(activeBoard, currentUser)
  /\ from \in DOMAIN LaneIds(tasks, st)
  /\ to \in DOMAIN LaneIds(tasks, st)
  /\ from # to
  /\ HasFree(inflight)
  /\ ops' = ops + 1
  /\ LET orderedIds == moveWithinLane(LaneIds(tasks, st), from, to)
         r == reorderColumnBegin(activeBoardId, st, orderedIds)
     IN IF activeBoardId # NoBoard
        THEN /\ tasks' = handleReorderSameColumnApply(tasks, st, orderedIds)
             /\ inflight' = Put(Touched(inflight, tasks, tasks'), r)
             /\ last' = Ev("issue", r)
        ELSE /\ tasks' = tasks
             /\ inflight' = inflight
             /\ last' = Ev("blocked", r)
  /\ thrown' = FALSE
  /\ UNCHANGED <<srvTasks, srvCreated, srvBoards, srvBoardsCreated, boardId, boards,
                 activeBoardId, currentUser, anyFailed,
                 taskError, boardError, modal, rendered>>

\* PATCH tasks/board/{boardId}/reorder {status, orderedTaskIds}: the backend
\* puts the listed tasks of that lane in the order given
ServerReorder(s) ==
  /\ inflight[s].kind = "reorder" /\ inflight[s].phase = "sent"
  /\ LET ids == inflight[s].payload
         inLane(t) == t.boardId = inflight[s].board /\ t.status = inflight[s].status
         listed == SelectSeq(ids, LAMBDA id : HasTask(srvTasks, id) /\ inLane(TaskOf(srvTasks, id)))
     IN srvTasks' = Filter(srvTasks, LAMBDA t : ~inLane(t))
                    \o [i \in DOMAIN listed |-> TaskOf(srvTasks, listed[i])]
                    \o Filter(srvTasks, LAMBDA t : inLane(t) /\ \A i \in DOMAIN ids : ids[i] # t.id)
  /\ inflight' = Respond(s, inflight[s].payload)
  /\ UNCHANGED <<srvCreated, srvBoards, srvBoardsCreated, tasks, boardId, boards, activeBoardId,
                 currentUser, anyFailed, ops, last,
                 taskError, boardError, thrown, modal, rendered>>

\* reorderColumn after the PATCH: nothing is written
DeliverReorder(s) ==
  /\ inflight[s].kind = "reorder" /\ inflight[s].phase = "ok"
  /\ inflight' = Clear(inflight, s)
  /\ last' = Ev("ok", inflight[s])
  /\ thrown' = FALSE
  /\ UNCHANGED <<srvTasks, srvCreated, srvBoards, srvBoardsCreated, tasks, boardId, boards,
                 activeBoardId, currentUser, anyFailed, ops,
                 taskError, boardError, modal, rendered>>

\* Faulty variant of reorderColumnCatch: the lane is put back in the reverse
\* of the order that was sent
reorderColumnCatch_Reverts(cur, req) ==
  handleReorderSameColumnApply(cur, req.status,
      [i \in 1..Len(req.payload) |-> req.payload[Len(req.payload) + 1 - i]])

\* reorderColumn, catch branch: a toast and the rethrow; tasks is not written
reorderColumnCatch(cur, req) == cur

\* reorderColumn, catch branch: a toast, the error is rethrown, the order set
\* by handleReorderSameColumn stays
FailReorder(s) ==
  /\ inflight[s].kind = "reorder" /\ inflight[s].phase = "sent"
  /\ tasks' = reorderColumnCatch(tasks, inflight[s])
  /\ inflight' = Clear(inflight, s)
  /\ last' = Ev("fail", inflight[s])
  /\ anyFailed' = TRUE
  /\ taskError' = taskCatch(inflight[s].kind, taskError).error
  /\ thrown' = taskCatch(inflight[s].kind, taskError).thrown
  /\ UNCHANGED <<srvTasks, srvCreated, srvBoards, srvBoardsCreated, boardId, boards,
                 activeBoardId, currentUser, ops,
                 boardError, modal, rendered>>

----------------------------------------------------------------------------
(* Spec: the task cache against the backend, for the owner of two boards   *)
(* whose board list is loaded and who has not selected a board yet.        *)

ScenarioMembers == <<Member("u1", "OWNER"), Member("u2", "EDITOR")>>

ScenarioBoards == <<Board("b1", "X", "u1", ScenarioMembers), Board("b2", "Y", "u1", ScenarioMembers)>>

ScenarioTasks == <<Task("t1", "b1", "X", "TODO"), Task("t2", "b2", "X", "TODO")>>

EmptySlots == [s \in Slots |-> NoReq]

TaskIds == {"t1", "t2"} \cup {NewIds[i] : i \in 1..MaxCreate}

Init ==
  /\ srvTasks = ScenarioTasks
  /\ srvCreated = 0
  /\ srvBoards = ScenarioBoards
  /\ srvBoardsCreated = 0
  /\ tasks = <<>>
  /\ boardId = NoBoard
  /\ boards = ScenarioBoards
  /\ activeBoardId = NoBoard
  /\ currentUser = "u1"
  /\ inflight = EmptySlots
  /\ anyFailed = FALSE
  /\ ops = 0
  /\ last = Ev("init", NoReq)
  /\ taskError = NoError
  /\ boardError = NoError
  /\ thrown = FALSE
  /\ modal = NoModal
  /\ rendered = tasks

\* The settlements of a status update and of the fetch that follows it
TaskSettle ==
  \/ \E s \in Slots : ServerFetch(s)
  \/ \E s \in Slots : ServerStatus(s)
  \/ \E s \in Slots : DeliverFetch(s)
  \/ \E s \in Slots : DeliverStatus(s)
  \/ \E s \in Slots : FailTask(s)

Next ==
  \/ \E b \in BoardIds : SetActiveBoard(b)
  \/ \E n \in Names : AddTask(n)
  \/ \E t \in TaskIds, n \in Names : UpdateTask(t, n)
  \/ \E t \in TaskIds : DeleteTask(t)
  \/ \E s \in Slots : ServerCreate(s)
  \/ \E s \in Slots : ServerUpdate(s)
  \/ \E s \in Slots : ServerDelete(s)
  \/ \E s \in Slots : DeliverCreate(s)
  \/ \E s \in Slots : DeliverUpdate(s)
  \/ \E s \in Slots : DeliverDelete(s)
  \/ \E t \in TaskIds, st \in Statuses : Drop(t, st)
  \/ TaskSettle

Spec == Init /\ [][Next]_vars

----------------------------------------------------------------------------
(* SpecLane: drag and drop on one board, from the moment its owner has     *)
(* selected it: the board is active and the fetch of its tasks is pending. *)

LaneTasks == <<Task("t1", "b1", "X", "TODO"), Task("t2", "b1", "Y", "TODO")>>

InitLane ==
  /\ srvTasks = LaneTasks
  /\ srvCreated = 0
  /\ srvBoards = ScenarioBoards
  /\ srvBoardsCreated = 0
  /\ tasks = <<>>
  /\ boardId = "b1"
  /\ boards = ScenarioBoards
  /\ activeBoardId = "b1"
  /\ currentUser = "u1"
  /\ inflight = fetchBegin(EmptySlots, "b1")
  /\ anyFailed = FALSE
  /\ ops = 0
  /\ last = Ev("issue", Req("fetch", "b1", "none", "none", "none", "none", "none"))
  /\ taskError = NoError
  /\ boardError = NoError
  /\ thrown = FALSE
  /\ modal = NoModal
  /\ rendered = tasks

LaneNext ==
  \/ \E n \in Names : AddTask(n)
  \/ \E t \in TaskIds, st \in Statuses : Drop(t, st)
  \/ \E st \in Statuses, from \in 1..MaxLane, to \in 1..MaxLane : Reorder(st, from, to)
  \/ \E s \in Slots : ServerCreate(s)
  \/ \E s \in Slots : DeliverCreate(s)
  \/ \E s \in Slots : ServerReorder(s)
  \/ \E s \in Slots : DeliverReorder(s)
  \/ \E s \in Slots : FailReorder(s)
  \/ TaskSettle

SpecLane == InitLane /\ [][LaneNext]_vars

----------------------------------------------------------------------------
(* SpecPerm: permission resolution over every small board, and the drop    *)
(* handler it gates.  The board, its membership and the signed-in user are *)
(* drawn at the start; the board is selected and its tasks are loaded.     *)

MemberLists ==
  {ms \in UNION {[1..n -> [userId : Users, role : Roles]] : n \in 0..MaxMembers} :
     \A i, j \in DOMAIN ms : ms[i].userId = ms[j].userId => i = j}

PermTasks == <<Task("t1", "b1", "X", "TODO")>>

InitPerm ==
  /\ \E o \in Users, ms \in MemberLists :
       /\ boards = <<Board("b1", "X", o, ms)>>
       /\ srvBoards = boards
       /\ srvBoardsCreated = 0
  /\ currentUser \in Users
  /\ srvTasks = PermTasks
  /\ srvCreated = 0
  /\ tasks = PermTasks
  /\ boardId = "b1"
  /\ activeBoardId = "b1"
  /\ inflight = EmptySlots
  /\ anyFailed = FALSE
  /\ ops = 0
  /\ last = Ev("init", NoReq)
  /\ taskError = NoError
  /\ boardError = NoError
  /\ thrown = FALSE
  /\ modal = NoModal
  /\ rendered = tasks

PermNext ==
  \/ \E t \in TaskIds, st \in Statuses : ops < MaxPermOps /\ Drop(t, st)
  \/ TaskSettle

SpecPerm == InitPerm /\ [][PermNext]_vars

----------------------------------------------------------------------------
(* useBoardStore: fetchBoards and fetchBoardMembers *)

\* A board as GET boards returns it: the members field may be missing
WireBoard(b, withMembers) ==
  [id |-> b.id, name |-> b.name, ownerId |-> b.ownerId,
   hasMembers |-> withMembers, members |-> IF withMembers THEN b.members ELSE <<>>]

\* fetchBoards up to the GET (Dashboard calls it when a user has signed in)
FetchBoards ==
  /\ ops < MaxOps
  /\ HasFree(inflight)
  /\ LET r == Req("boards", NoBoard, "none", "none", "none", "none", "none")
     IN /\ inflight' = Put(inflight, r)
        /\ last' = Ev("issue", r)
  /\ ops' = ops + 1
  /\ thrown' = FALSE
  /\ UNCHANGED <<srvTasks, srvCreated, srvBoards, srvBoardsCreated, tasks, boardId, boards,
                 activeBoardId, currentUser, anyFailed,
                 taskError, boardError, modal, rendered>>

\* GET boards: the boards, those of W with their members and the others without
ServerBoards(s, W) ==
  /\ inflight[s].kind = "boards" /\ inflight[s].phase = "sent"
  /\ inflight' = Respond(s, Map(srvBoards, LAMBDA b : WireBoard(b, b.id \in W)))
  /\ UNCHANGED <<srvTasks, srvCreated, srvBoards, srvBoardsCreated, tasks, boardId, boards,
                 activeBoardId, currentUser, anyFailed, ops, last,
                 taskError, boardError, thrown, modal, rendered>>

\* Faulty variant of fetchBoardsMerge: a board that comes without members gets none
fetchBoardsMerge_DropsMembers(prev, incoming) ==
  Map(incoming, LAMBDA b : Board(b.id, b.name, b.ownerId,
        IF b.hasMembers THEN b.members ELSE <<>>))

\* fetchBoards after the GET: const members = b.members ?? prev?.members ?? [];
\* return { ...prev, ...b, members }
fetchBoardsMerge(prev, incoming) ==
  Map(incoming, LAMBDA b : Board(b.id, b.name, b.ownerId,
        IF b.hasMembers THEN b.members
        ELSE IF Has(prev, LAMBDA p : p.id = b.id)
             THEN Find(prev, LAMBDA p : p.id = b.id).members
             ELSE <<>>))

DeliverBoards(s) ==
  /\ inflight[s].kind = "boards" /\ inflight[s].phase = "ok"
  /\ boards' = fetchBoardsMerge(boards, inflight[s].payload)
  /\ inflight' = Clear(inflight, s)
  /\ last' = Ev("ok", inflight[s])
  /\ thrown' = FALSE
  /\ UNCHANGED <<srvTasks, srvCreated, srvBoards, srvBoardsCreated, tasks, boardId, activeBoardId,
                 currentUser, anyFailed, ops,
                 taskError, boardError, modal, rendered>>

\* The share dialog, which the owner opens for the active board, calls
\* fetchBoardMembers(board.id) when it mounts: up to the GET.
FetchBoardMembers(b) ==
  /\ ops < MaxOps
  /\ isOwner(activeBoard, currentUser)
  /\ activeBoard.id = b
  /\ HasFree(inflight)
  /\ LET r == Req("members", b, "none", "none", "none", "none", "none")
     IN /\ inflight' = Put(inflight, r)
        /\ last' = Ev("issue", r)
  /\ ops' = ops + 1
  /\ thrown' = FALSE
  /\ UNCHANGED <<srvTasks, srvCreated, srvBoards, srvBoardsCreated, tasks, boardId, boards,
                 activeBoardId, currentUser, anyFailed,
                 taskError, boardError, modal, rendered>>

\* GET boards/{id}/members, followed by the lookup of the users' profiles,
\* which adds only the names and e-mail addresses the model does not keep.
ServerMembers(s) ==
  /\ inflight[s].kind = "members" /\ inflight[s].phase = "sent"
  /\ Has(srvBoards, LAMBDA b : b.id = inflight[s].board)
  /\ inflight' = Respond(s, Find(srvBoards, LAMBDA b : b.id = inflight[s].board).members)
  /\ UNCHANGED <<srvTasks, srvCreated, srvBoards, srvBoardsCreated, tasks, boardId, boards,
                 activeBoardId, currentUser, anyFailed, ops, last,
                 taskError, boardError, thrown, modal, rendered>>

\* Faulty variant of fetchBoardMembersApply: the members are added to those cached
fetchBoardMembersApply_Appends(prev, b, enriched) ==
  Map(prev, LAMBDA x : IF x.id = b THEN [x EXCEPT !.members = x.members \o enriched] ELSE x)

\* fetchBoardMembers, step 4: the enriched members are saved into the board
fetchBoardMembersApply(prev, b, enriched) ==
  Map(prev, LAMBDA x : IF x.id = b THEN [x EXCEPT !.members = enriched] ELSE x)

DeliverMembers(s) ==
  /\ inflight[s].kind = "members" /\ inflight[s].phase = "ok"
  /\ boards' = fetchBoardMembersApply(boards, inflight[s].board, inflight[s].payload)
  /\ inflight' = Clear(inflight, s)
  /\ last' = Ev("ok", inflight[s])
  /\ thrown' = FALSE
  /\ UNCHANGED <<srvTasks, srvCreated, srvBoards, srvBoardsCreated, tasks, boardId, activeBoardId,
                 currentUser, anyFailed, ops,
                 taskError, boardError, modal, rendered>>

\* fetchBoards and fetchBoardMembers have no catch: the rejection reaches the
\* caller and the store is left as it is.
FailBoard(s) ==
  /\ inflight[s].kind \in {"boards", "members"}
  /\ inflight[s].phase = "sent"
  /\ inflight' = Clear(inflight, s)
  /\ last' = Ev("fail", inflight[s])
  /\ anyFailed' = TRUE
  /\ boardError' = boardCatch(inflight[s].kind, boardError).error
  /\ thrown' = boardCatch(inflight[s].kind, boardError).thrown
  /\ UNCHANGED <<srvTasks, srvCreated, srvBoards, srvBoardsCreated, tasks, boardId, boards,
                 activeBoardId, currentUser, ops,
                 taskError, modal, rendered>>

----------------------------------------------------------------------------
(* SpecBoard: the board cache against the backend, from the state the      *)
(* Dashboard leaves when a user has signed in (both stores reset).         *)

InitBoard ==
  /\ srvTasks = ScenarioTasks
  /\ srvCreated = 0
  /\ srvBoards = ScenarioBoards
  /\ srvBoardsCreated = 0
  /\ tasks = <<>>
  /\ boardId = NoBoard
  /\ boards = <<>>
  /\ activeBoardId = NoBoard
  /\ currentUser = "u1"
  /\ inflight = EmptySlots
  /\ anyFailed = FALSE
  /\ ops = 0
  /\ last = Ev("init", NoReq)
  /\ taskError = NoError
  /\ boardError = NoError
  /\ thrown = FALSE
  /\ modal = NoModal
  /\ rendered = tasks

BoardNext ==
  \/ FetchBoards
  \/ \E b \in BoardIds : FetchBoardMembers(b)
  \/ \E s \in Slots, W \in SUBSET BoardIds : ServerBoards(s, W)
  \/ \E s \in Slots : ServerMembers(s)
  \/ \E s \in Slots : DeliverBoards(s)
  \/ \E s \in Slots : DeliverMembers(s)
  \/ \E s \in Slots : FailBoard(s)

SpecBoard == InitBoard /\ [][BoardNext]_vars

----------------------------------------------------------------------------
(* useBoardStore: createBoard, renameBoard, deleteBoard, with the handlers *)
(* of CreateBoardModal, Sidebar and Dashboard that call them               *)

\* What a user can type into a name field, as a sequence of characters
Texts == {<<>>, <<" ">>, <<"X">>, <<" ", "Y", " ">>}

RECURSIVE trimStart(_)
trimStart(txt) ==
  IF txt # <<>> /\ Head(txt) = " " THEN trimStart(Tail(txt)) ELSE txt

RECURSIVE trimEnd(_)
trimEnd(txt) ==
  IF txt # <<>> /\ txt[Len(txt)] = " " THEN trimEnd(SubSeq(txt, 1, Len(txt) - 1)) ELSE txt

\* String.prototype.trim
trim(txt) == trimEnd(trimStart(txt))

\* The name a sequence of characters spells
NameOf(txt) ==
  IF txt = <<"X">> THEN "X"
  ELSE IF txt = <<"Y">> THEN "Y"
  ELSE IF txt = <<>> THEN ""
  ELSE "other"

\* The ids the backend gives to created boards
NewBoardIds == <<"b3", "b4">>

PendingBoardCreates ==
  Cardinality({s \in Slots : inflight[s].kind = "createBoard" /\ inflight[s].phase = "sent"})

\* A board operation's call
BoardReq(k, b, n) == Req(k, b, "none", n, "none", "none", "none")

\* The Dashboard effect on activeBoardId: when the id changed to a non-empty
\* one, fetchTasksByBoard(next) runs (boardId is set, the GET is sent).
activeBoardEffect(infl, prevActive, nextActive) ==
  IF nextActive # prevActive /\ nextActive # NoBoard THEN fetchBegin(infl, nextActive) ELSE infl

\* fetchTasksByBoard, when the effect runs it: set({ isLoading: true, error: null, boardId })
activeBoardEffectError(err, prevActive, nextActive) ==
  IF nextActive # prevActive /\ nextActive # NoBoard THEN NoError ELSE err

activeBoardEffectBoardId(cur, prevActive, nextActive) ==
  IF nextActive # prevActive /\ nextActive # NoBoard THEN nextActive ELSE cur

\* Faulty variant of handleCreateAllowed: the name is tested before it is trimmed
handleCreateAllowed_Untrimmed(txt) == txt # <<>>

\* CreateBoardModal.handleCreate: const trimmed = name.trim(); if (!trimmed) return
handleCreateAllowed(txt) == trim(txt) # <<>>

\* CreateBoardModal.handleCreate(txt) -> onCreate(trimmed) -> createBoard(trimmed),
\* up to the POST
CreateBoardSubmit(txt) ==
  /\ ops < MaxOps
  /\ currentUser # NoUser
  /\ HasFree(inflight)
  /\ srvBoardsCreated + PendingBoardCreates < MaxBoardCreate
  /\ ops' = ops + 1
  /\ IF handleCreateAllowed(txt)
     THEN /\ inflight' = Put(inflight, BoardReq("createBoard", NoBoard, NameOf(trim(txt))))
          /\ last' = Ev("issue", BoardReq("createBoard", NoBoard, NameOf(trim(txt))))
     ELSE /\ inflight' = inflight
          /\ last' = Ev("blocked", BoardReq("createBoard", NoBoard, NameOf(trim(txt))))
  /\ boardError' = IF handleCreateAllowed(txt) THEN NoError ELSE boardError
  /\ thrown' = FALSE
  /\ UNCHANGED <<srvTasks, srvCreated, srvBoards, srvBoardsCreated, tasks, boardId, boards,
                 activeBoardId, currentUser, anyFailed,
                 taskError, modal, rendered>>

\* POST boards {name}: the backend makes the caller the owner of the new board
ServerCreateBoard(s, withMembers) ==
  /\ inflight[s].kind = "createBoard" /\ inflight[s].phase = "sent"
  /\ srvBoardsCreated < MaxBoardCreate
  /\ LET created == Board(NewBoardIds[srvBoardsCreated + 1], inflight[s].name, currentUser,
                          <<Member(currentUser, "OWNER")>>)
     IN /\ srvBoards' = Append(srvBoards, created)
        /\ inflight' = Respond(s, <<WireBoard(created, withMembers)>>)
  /\ srvBoardsCreated' = srvBoardsCreated + 1
  /\ UNCHANGED <<srvTasks, srvCreated, tasks, boardId, boards, activeBoardId, currentUser,
                 anyFailed, ops, last,
                 taskError, boardError, thrown, modal, rendered>>

\* createBoard after the POST: boards: [...get().boards, created]
createBoardApply(prev, created) ==
  Append(prev, Board(created.id, created.name, created.ownerId, created.members))

DeliverCreateBoard(s) ==
  /\ inflight[s].kind = "createBoard" /\ inflight[s].phase = "ok"
  /\ boards' = createBoardApply(boards, inflight[s].payload[1])
  /\ activeBoardId' = inflight[s].payload[1].id
  /\ boardId' = activeBoardEffectBoardId(boardId, activeBoardId, activeBoardId')
  /\ inflight' = activeBoardEffect(Clear(inflight, s), activeBoardId, activeBoardId')
  /\ last' = Ev("ok", inflight[s])
  /\ taskError' = activeBoardEffectError(taskError, activeBoardId, activeBoardId')
  /\ thrown' = FALSE
  /\ UNCHANGED <<srvTasks, srvCreated, srvBoards, srvBoardsCreated, tasks, currentUser,
                 anyFailed, ops,
                 boardError, modal, rendered>>

\* Faulty variant of renameBoardBeforeAwait: the name is written before the PATCH
renameBoardBeforeAwait_Optimistic(prev, b, n) ==
  [i \in DOMAIN prev |-> IF prev[i].id = b THEN [prev[i] EXCEPT !.name = n] ELSE prev[i]]

\* renameBoard before its await: set({ isRenamingBoard: true, error: null })
renameBoardBeforeAwait(prev, b, n) == prev

\* Dashboard.handleRenameBoard (in the menu the owner sees): returns unless
\* activeBoardId is set and the trimmed name is non-empty, then
\* renameBoard(activeBoardId, name), up to the PATCH
RenameBoard(txt) ==
  /\ ops < MaxOps
  /\ isOwner(activeBoard, currentUser)
  /\ HasFree(inflight)
  /\ ops' = ops + 1
  /\ IF activeBoardId # NoBoard /\ trim(txt) # <<>>
     THEN /\ boards' = renameBoardBeforeAwait(boards, activeBoardId, NameOf(trim(txt)))
          /\ inflight' = Put(inflight, BoardReq("renameBoard", activeBoardId, NameOf(trim(txt))))
          /\ last' = Ev("issue", BoardReq("renameBoard", activeBoardId, NameOf(trim(txt))))
     ELSE /\ boards' = boards
          /\ inflight' = inflight
          /\ last' = Ev("blocked", BoardReq("renameBoard", activeBoardId, NameOf(trim(txt))))
  /\ boardError' = IF activeBoardId # NoBoard /\ trim(txt) # <<>> THEN NoError ELSE boardError
  /\ thrown' = FALSE
  /\ UNCHANGED <<srvTasks, srvCreated, srvBoards, srvBoardsCreated, tasks, boardId,
                 activeBoardId, currentUser, anyFailed,
                 taskError, modal, rendered>>

\* PATCH boards/{id} {name}
ServerRenameBoard(s) ==
  /\ inflight[s].kind = "renameBoard" /\ inflight[s].phase = "sent"
  /\ Has(srvBoards, LAMBDA b : b.id = inflight[s].board)
  /\ srvBoards' = Map(srvBoards, LAMBDA b :
        IF b.id = inflight[s].board THEN [b EXCEPT !.name = inflight[s].name] ELSE b)
  /\ inflight' = Respond(s, <<>>)
  /\ UNCHANGED <<srvTasks, srvCreated, srvBoardsCreated, tasks, boardId, boards,
                 activeBoardId, currentUser, anyFailed, ops, last,
                 taskError, boardError, thrown, modal, rendered>>

\* renameBoard after the PATCH: boards.map(b => b.id === boardId ? {...b, name} : b)
renameBoardApply(prev, b, n) ==
  Map(prev, LAMBDA x : IF x.id = b THEN [x EXCEPT !.name = n] ELSE x)

DeliverRenameBoard(s) ==
  /\ inflight[s].kind = "renameBoard" /\ inflight[s].phase = "ok"
  /\ boards' = renameBoardApply(boards, inflight[s].board, inflight[s].name)
  /\ inflight' = Clear(inflight, s)
  /\ last' = Ev("ok", inflight[s])
  /\ thrown' = FALSE
  /\ UNCHANGED <<srvTasks, srvCreated, srvBoards, srvBoardsCreated, tasks, boardId,
                 activeBoardId, currentUser, anyFailed, ops,
                 taskError, boardError, modal, rendered>>

\* Dashboard.handleDeleteBoard(confirmBoardDelete), the board being the active
\* board of the menu the owner sees -> deleteBoard(board.id), up to the DELETE
DeleteBoard ==
  /\ ops < MaxOps
  /\ isOwner(activeBoard, currentUser)
  /\ HasFree(inflight)
  /\ inflight' = Put(inflight, BoardReq("deleteBoard", activeBoard.id, "none"))
  /\ last' = Ev("issue", BoardReq("deleteBoard", activeBoard.id, "none"))
  /\ ops' = ops + 1
  /\ boardError' = NoError
  /\ thrown' = FALSE
  /\ UNCHANGED <<srvTasks, srvCreated, srvBoards, srvBoardsCreated, tasks, boardId, boards,
                 activeBoardId, currentUser, anyFailed,
                 taskError, modal, rendered>>

\* DELETE boards/{id}: the board goes, with its tasks
ServerDeleteBoard(s) ==
  /\ inflight[s].kind = "deleteBoard" /\ inflight[s].phase = "sent"
  /\ Has(srvBoards, LAMBDA b : b.id = inflight[s].board)
  /\ srvBoards' = Filter(srvBoards, LAMBDA b : b.id # inflight[s].board)
  /\ srvTasks' = Filter(srvTasks, LAMBDA t : t.boardId # inflight[s].board)
  /\ inflight' = Respond(s, <<>>)
  /\ UNCHANGED <<srvCreated, srvBoardsCreated, tasks, boardId, boards, activeBoardId,
                 currentUser, anyFailed, ops, last,
                 taskError, boardError, thrown, modal, rendered>>

\* deleteBoard after the DELETE: boards.filter(b => b.id !== boardId)
deleteBoardApply(prev, b) == Filter(prev, LAMBDA x : x.id # b)

\* nextBoards[0]?.id
firstBoardId(bs) == IF bs = <<>> THEN NoBoard ELSE bs[1].id

\* (activeBoardId === boardId ? nextBoards[0]?.id : activeBoardId) || nextBoards[0]?.id || null
deleteBoardNextActive(nextBoards, active, b) ==
  LET chosen == IF active = b THEN firstBoardId(nextBoards) ELSE active
  IN IF chosen # NoBoard THEN chosen ELSE firstBoardId(nextBoards)

DeliverDeleteBoard(s) ==
  /\ inflight[s].kind = "deleteBoard" /\ inflight[s].phase = "ok"
  /\ boards' = deleteBoardApply(boards, inflight[s].board)
  /\ activeBoardId' = deleteBoardNextActive(boards', activeBoardId, inflight[s].board)
  /\ boardId' = activeBoardEffectBoardId(boardId, activeBoardId, activeBoardId')
  /\ inflight' = activeBoardEffect(Clear(inflight, s), activeBoardId, activeBoardId')
  /\ last' = Ev("ok", inflight[s])
  /\ taskError' = activeBoardEffectError(taskError, activeBoardId, activeBoardId')
  /\ thrown' = FALSE
  /\ UNCHANGED <<srvTasks, srvCreated, srvBoards, srvBoardsCreated, tasks, currentUser,
                 anyFailed, ops,
                 boardError, modal, rendered>>

\* The catch branch of createBoard, renameBoard and deleteBoard: the error is
\* recorded and rethrown, boards and activeBoardId are not written.
failBoardApply(prev, req) == prev

FailBoardOp(s) ==
  /\ inflight[s].kind \in {"createBoard", "renameBoard", "deleteBoard"}
  /\ inflight[s].phase = "sent"
  /\ boards' = failBoardApply(boards, inflight[s])
  /\ inflight' = Clear(inflight, s)
  /\ last' = Ev("fail", inflight[s])
  /\ anyFailed' = TRUE
  /\ boardError' = boardCatch(inflight[s].kind, boardError).error
  /\ thrown' = boardCatch(inflight[s].kind, boardError).thrown
  /\ UNCHANGED <<srvTasks, srvCreated, srvBoards, srvBoardsCreated, tasks, boardId,
                 activeBoardId, currentUser, ops,
                 taskError, modal, rendered>>

----------------------------------------------------------------------------
(* Page load, sign-out and sign-in *)

\* persist({ name: "board-storage", partialize }): what every set() of the
\* board store leaves in localStorage, which a page load hydrates the store from
partialize(bs, active) == [boards |-> bs, activeBoardId |-> active]

\* The accounts that sign in during a run
LoginUsers == {"u1"}

\* Dashboard mounts for user u with the board store as hydrated: its first
\* effect resets both stores and calls fetchBoards; its second effect still
\* holds the activeBoardId of the first render and calls fetchTasksByBoard
\* with it when it is set.
DashboardMount(u, hydrated) ==
  /\ currentUser' = u
  /\ boards' = <<>>
  /\ activeBoardId' = NoBoard
  /\ tasks' = <<>>
  /\ taskError' = NoError
  /\ boardError' = NoError
  /\ thrown' = FALSE
  /\ IF hydrated.activeBoardId # NoBoard
     THEN /\ boardId' = hydrated.activeBoardId
          /\ inflight' = fetchBegin(Put(EmptySlots, BoardReq("boards", NoBoard, "none")),
                                    hydrated.activeBoardId)
     ELSE /\ boardId' = NoBoard
          /\ inflight' = Put(EmptySlots, BoardReq("boards", NoBoard, "none"))

\* The signed-in user reloads the page: pending calls are abandoned, the task
\* store starts empty, the board store is hydrated, Dashboard mounts.
Reload ==
  /\ ops < MaxOps
  /\ currentUser # NoUser
  /\ DashboardMount(currentUser, partialize(boards, activeBoardId))
  /\ last' = Ev("reload", NoReq)
  /\ ops' = ops + 1
  /\ UNCHANGED <<srvTasks, srvCreated, srvBoards, srvBoardsCreated, anyFailed, modal, rendered>>

\* useAuthStore.logout: removes token, user and auth-storage, clears the auth
\* state and loads /login. The page load abandons the pending calls and
\* builds the stores anew: the task store empty, the board store hydrated
\* from board-storage, which logout leaves in place.
Logout ==
  /\ ops < MaxOps
  /\ currentUser # NoUser
  /\ currentUser' = NoUser
  /\ tasks' = <<>>
  /\ boardId' = NoBoard
  /\ boards' = partialize(boards, activeBoardId).boards
  /\ activeBoardId' = partialize(boards, activeBoardId).activeBoardId
  /\ inflight' = EmptySlots
  /\ last' = Ev("logout", NoReq)
  /\ ops' = ops + 1
  /\ taskError' = NoError
  /\ boardError' = NoError
  /\ thrown' = FALSE
  /\ UNCHANGED <<srvTasks, srvCreated, srvBoards, srvBoardsCreated, anyFailed, modal, rendered>>

\* A user signs in on /login and Dashboard mounts
Login(u) ==
  /\ ops < MaxOps
  /\ currentUser = NoUser
  /\ DashboardMount(u, partialize(boards, activeBoardId))
  /\ last' = Ev("login", NoReq)
  /\ ops' = ops + 1
  /\ UNCHANGED <<srvTasks, srvCreated, srvBoards, srvBoardsCreated, anyFailed, modal, rendered>>

----------------------------------------------------------------------------
(* SpecBoardOps: the board cache with create, rename, delete, page load,   *)
(* sign-out and sign-in, from the state the Dashboard leaves when a user    *)
(* has signed in (both stores reset).                                      *)

InitBoardOps ==
  /\ srvTasks = ScenarioTasks
  /\ srvCreated = 0
  /\ srvBoards \in {ScenarioBoards, SubSeq(ScenarioBoards, 1, 1)}
  /\ srvBoardsCreated = 0
  /\ tasks = <<>>
  /\ boardId = NoBoard
  /\ boards = <<>>
  /\ activeBoardId = NoBoard
  /\ currentUser = "u1"
  /\ inflight = EmptySlots
  /\ anyFailed = FALSE
  /\ ops = 0
  /\ last = Ev("init", NoReq)
  /\ taskError = NoError
  /\ boardError = NoError
  /\ thrown = FALSE
  /\ modal = NoModal
  /\ rendered = tasks

BoardOpsNext ==
  \/ currentUser # NoUser /\ FetchBoards
  \/ \E b \in BoardIds : FetchBoardMembers(b)
  \/ \E s \in Slots, W \in SUBSET BoardIds : ServerBoards(s, W)
  \/ \E s \in Slots : ServerMembers(s)
  \/ \E s \in Slots : DeliverBoards(s)
  \/ \E s \in Slots : DeliverMembers(s)
  \/ \E s \in Slots : FailBoard(s)
  \/ \E b \in BoardIds \cup {NewBoardIds[i] : i \in 1..MaxBoardCreate} :
       currentUser # NoUser /\ SetActiveBoard(b)
  \/ \E txt \in Texts : CreateBoardSubmit(txt)
  \/ \E txt \in Texts : RenameBoard(txt)
  \/ DeleteBoard
  \/ \E s \in Slots, withMembers \in BOOLEAN : ServerCreateBoard(s, withMembers)
  \/ \E s \in Slots : ServerRenameBoard(s)
  \/ \E s \in Slots : ServerDeleteBoard(s)
  \/ \E s \in Slots : DeliverCreateBoard(s)
  \/ \E s \in Slots : DeliverRenameBoard(s)
  \/ \E s \in Slots : DeliverDeleteBoard(s)
  \/ \E s \in Slots : FailBoardOp(s)
  \/ \E s \in Slots : ServerFetch(s)
  \/ \E s \in Slots : DeliverFetch(s)
  \/ \E s \in Slots : FailTask(s)
  \/ Reload
  \/ Logout
  \/ \E u \in LoginUsers : Login(u)

SpecBoardOps == InitBoardOps /\ [][BoardOpsNext]_vars

----------------------------------------------------------------------------
(* The store methods as their contracts state them: called with any         *)
(* argument, whatever the component that calls them passes today.           *)

\* Faulty variant of fetchTasksByBoardBegin: an empty boardId returns at once
fetchTasksByBoardBegin_NoOp(cur, curBoard, b) ==
  IF b = EmptyBoardId
  THEN [tasks |-> cur, boardId |-> curBoard, sends |-> FALSE]
  ELSE [tasks |-> cur, boardId |-> b, sends |-> TRUE]

\* fetchTasksByBoard(b) up to the GET: with an empty boardId
\* set({ tasks: [], boardId: null }) and return; otherwise set({ boardId })
\* and the GET is sent.
fetchTasksByBoardBegin(cur, curBoard, b) ==
  IF b = EmptyBoardId
  THEN [tasks |-> <<>>, boardId |-> NoBoard, sends |-> FALSE]
  ELSE [tasks |-> cur, boardId |-> b, sends |-> TRUE]

FetchTasksByBoard(b) ==
  /\ ops < MaxOps
  /\ HasFree(inflight)
  /\ LET r == fetchTasksByBoardBegin(tasks, boardId, b)
         q == [Req("fetch", b, "none", "none", "none", "none", "none")
                 EXCEPT !.pre = IF tasks = <<>> THEN "empty" ELSE "loaded"]
     IN /\ tasks' = r.tasks
        /\ boardId' = r.boardId
        /\ IF r.sends
           THEN /\ inflight' = fetchBegin(Touched(inflight, tasks, tasks'), b)
                /\ last' = Ev("issue", q)
           ELSE /\ inflight' = Touched(inflight, tasks, tasks')
                /\ last' = Ev("return", q)
  /\ ops' = ops + 1
  /\ taskError' = IF fetchTasksByBoardBegin(tasks, boardId, b).sends THEN NoError ELSE taskError
  /\ thrown' = FALSE
  /\ UNCHANGED <<srvTasks, srvCreated, srvBoards, srvBoardsCreated, boards, activeBoardId,
                 currentUser, anyFailed,
                 boardError, modal, rendered>>

\* SpecStore: the owner of board b1 has it selected and its tasks loaded
StoreTasks == <<Task("t1", "b1", "X", "TODO")>>

InitStore ==
  /\ srvTasks = ScenarioTasks
  /\ srvCreated = 0
  /\ srvBoards = ScenarioBoards
  /\ srvBoardsCreated = 0
  /\ tasks = StoreTasks
  /\ boardId = "b1"
  /\ boards = ScenarioBoards
  /\ activeBoardId = "b1"
  /\ currentUser = "u1"
  /\ inflight = EmptySlots
  /\ anyFailed = FALSE
  /\ ops = 0
  /\ last = Ev("init", NoReq)
  /\ taskError = NoError
  /\ boardError = NoError
  /\ thrown = FALSE
  /\ modal = NoModal
  /\ rendered = tasks

StoreNext ==
  \/ \E b \in BoardIds \cup {EmptyBoardId} : FetchTasksByBoard(b)
  \/ \E s \in Slots : ServerFetch(s)
  \/ \E s \in Slots : DeliverFetch(s)
  \/ \E s \in Slots : FailTask(s)

SpecStore == InitStore /\ [][StoreNext]_vars

----------------------------------------------------------------------------
(* The mutation methods of both stores, called directly, and their failure *)

\* shareBoard, updateMemberRole, removeMember
MemberKinds == {"share", "role", "remove"}

\* A call about member u of board b; name carries the user id and status the role
MemberReq(k, b, u, r) == Req(k, b, "none", u, r, "none", "none")

\* shareBoard(b, u, r) up to the POST
ShareBoard(b, u, r) ==
  /\ ops < MaxOps
  /\ HasFree(inflight)
  /\ inflight' = Put(inflight, MemberReq("share", b, u, r))
  /\ last' = Ev("issue", MemberReq("share", b, u, r))
  /\ ops' = ops + 1
  /\ thrown' = FALSE
  /\ UNCHANGED <<srvTasks, srvCreated, srvBoards, srvBoardsCreated, tasks, boardId, boards,
                 activeBoardId, currentUser, anyFailed,
                 taskError, boardError, modal, rendered>>

\* updateMemberRole(b, u, r) up to the PATCH
UpdateMemberRole(b, u, r) ==
  /\ ops < MaxOps
  /\ HasFree(inflight)
  /\ inflight' = Put(inflight, MemberReq("role", b, u, r))
  /\ last' = Ev("issue", MemberReq("role", b, u, r))
  /\ ops' = ops + 1
  /\ thrown' = FALSE
  /\ UNCHANGED <<srvTasks, srvCreated, srvBoards, srvBoardsCreated, tasks, boardId, boards,
                 activeBoardId, currentUser, anyFailed,
                 taskError, boardError, modal, rendered>>

\* removeMember(b, u) up to the DELETE
RemoveMember(b, u) ==
  /\ ops < MaxOps
  /\ HasFree(inflight)
  /\ inflight' = Put(inflight, MemberReq("remove", b, u, "none"))
  /\ last' = Ev("issue", MemberReq("remove", b, u, "none"))
  /\ ops' = ops + 1
  /\ thrown' = FALSE
  /\ UNCHANGED <<srvTasks, srvCreated, srvBoards, srvBoardsCreated, tasks, boardId, boards,
                 activeBoardId, currentUser, anyFailed,
                 taskError, boardError, modal, rendered>>

\* The membership the backend keeps after the call: a share adds the user
\* unless listed, a role change rewrites the role, a removal drops the entry
srvMembersAfter(ms, req) ==
  IF req.kind = "share"
  THEN IF \E i \in DOMAIN ms : ms[i].userId = req.name THEN ms
       ELSE Append(ms, Member(req.name, req.status))
  ELSE IF req.kind = "role"
  THEN Map(ms, LAMBDA m : IF m.userId = req.name THEN Member(m.userId, req.status) ELSE m)
  ELSE Filter(ms, LAMBDA m : m.userId # req.name)

\* POST boards/{id}/share, PATCH and DELETE boards/{id}/members/{userId}
ServerMemberOp(s) ==
  /\ inflight[s].kind \in MemberKinds /\ inflight[s].phase = "sent"
  /\ Has(srvBoards, LAMBDA b : b.id = inflight[s].board)
  /\ srvBoards' = Map(srvBoards, LAMBDA b :
                        IF b.id = inflight[s].board
                        THEN [b EXCEPT !.members = srvMembersAfter(b.members, inflight[s])]
                        ELSE b)
  /\ inflight' = Respond(s, <<>>)
  /\ UNCHANGED <<srvTasks, srvCreated, srvBoardsCreated, tasks, boardId, boards,
                 activeBoardId, currentUser, anyFailed, ops, last,
                 taskError, boardError, thrown, modal, rendered>>

\* After the first await of the three methods: await get().fetchBoardMembers(boardId)
DeliverMemberOp(s) ==
  /\ inflight[s].kind \in MemberKinds /\ inflight[s].phase = "ok"
  /\ inflight' = Put(Clear(inflight, s),
                     Req("members", inflight[s].board, "none", "none", "none",
                         inflight[s].kind, "none"))
  /\ last' = Ev("ok", inflight[s])
  /\ thrown' = FALSE
  /\ UNCHANGED <<srvTasks, srvCreated, srvBoards, srvBoardsCreated, tasks, boardId, boards,
                 activeBoardId, currentUser, anyFailed, ops,
                 taskError, boardError, modal, rendered>>

\* The three methods have no catch: the rejection of the call reaches the caller
FailMemberOp(s) ==
  /\ inflight[s].kind \in MemberKinds /\ inflight[s].phase = "sent"
  /\ inflight' = Clear(inflight, s)
  /\ last' = Ev("fail", inflight[s])
  /\ anyFailed' = TRUE
  /\ boardError' = boardCatch(inflight[s].kind, boardError).error
  /\ thrown' = boardCatch(inflight[s].kind, boardError).thrown
  /\ UNCHANGED <<srvTasks, srvCreated, srvBoards, srvBoardsCreated, tasks, boardId, boards,
                 activeBoardId, currentUser, ops,
                 taskError, modal, rendered>>

\* The userIds a caller passes to setTaskAssignees
AssigneeLists == {<<>>, <<"u2">>}

\* setTaskAssignees(t, userIds) up to the PATCH; payload carries the userIds
\* of the request, the response is not read
SetTaskAssignees(t, userIds) ==
  /\ ops < MaxOps
  /\ HasFree(inflight)
  /\ LET r == [Req("assignees", NoBoard, t, "none", "none", "none", "none")
                 EXCEPT !.payload = userIds]
     IN /\ inflight' = Put(inflight, r)
        /\ last' = Ev("issue", r)
  /\ ops' = ops + 1
  /\ thrown' = FALSE
  /\ UNCHANGED <<srvTasks, srvCreated, srvBoards, srvBoardsCreated, tasks, boardId, boards,
                 activeBoardId, currentUser, anyFailed,
                 taskError, boardError, modal, rendered>>

\* PATCH tasks/{id}/assignees {userIds}
ServerAssignees(s) ==
  /\ inflight[s].kind = "assignees" /\ inflight[s].phase = "sent"
  /\ HasTask(srvTasks, inflight[s].task)
  /\ srvTasks' = Map(srvTasks, LAMBDA t : IF t.id = inflight[s].task
                                          THEN [t EXCEPT !.assignedTo = inflight[s].payload]
                                          ELSE t)
  /\ inflight' = Respond(s, inflight[s].payload)
  /\ UNCHANGED <<srvCreated, srvBoards, srvBoardsCreated, tasks, boardId, boards,
                 activeBoardId, currentUser, anyFailed, ops, last,
                 taskError, boardError, thrown, modal, rendered>>

\* setTaskAssignees after the PATCH: t.id === taskId ? { ...t, assignedTo: userIds } : t
setTaskAssigneesApply(cur, id, userIds) ==
  Map(cur, LAMBDA t : IF t.id = id THEN [t EXCEPT !.assignedTo = userIds] ELSE t)

DeliverAssignees(s) ==
  /\ inflight[s].kind = "assignees" /\ inflight[s].phase = "ok"
  /\ tasks' = setTaskAssigneesApply(tasks, inflight[s].task, inflight[s].payload)
  /\ inflight' = Settle(s, tasks')
  /\ last' = Ev("ok", inflight[s])
  /\ thrown' = FALSE
  /\ UNCHANGED <<srvTasks, srvCreated, srvBoards, srvBoardsCreated, boardId, boards,
                 activeBoardId, currentUser, anyFailed, ops,
                 taskError, boardError, modal, rendered>>

\* setTaskAssignees, catch branch: a toast, the error is rethrown
FailAssignees(s) ==
  /\ inflight[s].kind = "assignees" /\ inflight[s].phase = "sent"
  /\ inflight' = Clear(inflight, s)
  /\ last' = Ev("fail", inflight[s])
  /\ anyFailed' = TRUE
  /\ taskError' = taskCatch(inflight[s].kind, taskError).error
  /\ thrown' = taskCatch(inflight[s].kind, taskError).thrown
  /\ UNCHANGED <<srvTasks, srvCreated, srvBoards, srvBoardsCreated, tasks, boardId, boards,
                 activeBoardId, currentUser, ops,
                 boardError, modal, rendered>>

\* The orderedTaskIds a caller passes to reorderColumn
OrderedIdLists == {<<>>, <<"t1">>}

\* reorderColumn(b, st, ids) up to the PATCH
ReorderColumn(b, st, ids) ==
  /\ ops < MaxOps
  /\ HasFree(inflight)
  /\ LET r == reorderColumnBegin(b, st, ids)
     IN IF r = NoReq
        THEN /\ inflight' = inflight
             /\ last' = Ev("return", [r EXCEPT !.kind = "reorder"])
        ELSE /\ inflight' = Put(inflight, r)
             /\ last' = Ev("issue", r)
  /\ ops' = ops + 1
  /\ thrown' = FALSE
  /\ UNCHANGED <<srvTasks, srvCreated, srvBoards, srvBoardsCreated, tasks, boardId, boards,
                 activeBoardId, currentUser, anyFailed,
                 taskError, boardError, modal, rendered>>

\* SpecMut: the owner of board b1 has it selected and its tasks loaded, and
\* calls one mutation method after the other
MutCall ==
  \/ \E n \in Names : AddTask(n)
  \/ \E t \in TaskIds, n \in Names : UpdateTask(t, n)
  \/ \E t \in TaskIds, st \in Statuses : Drop(t, st)
  \/ \E t \in TaskIds : DeleteTask(t)
  \/ \E t \in TaskIds, ids \in AssigneeLists : SetTaskAssignees(t, ids)
  \/ \E b \in BoardIds \cup {EmptyBoardId}, st \in Statuses, ids \in OrderedIdLists :
       ReorderColumn(b, st, ids)
  \/ \E txt \in Texts : CreateBoardSubmit(txt)
  \/ \E txt \in Texts : RenameBoard(txt)
  \/ DeleteBoard
  \/ \E b \in BoardIds, u \in Users, r \in Roles : ShareBoard(b, u, r)
  \/ \E b \in BoardIds, u \in Users, r \in Roles : UpdateMemberRole(b, u, r)
  \/ \E b \in BoardIds, u \in Users : RemoveMember(b, u)

MutNext ==
  \/ ops < MaxMutOps /\ MutCall
  \/ \E s \in Slots : ServerCreate(s)
  \/ \E s \in Slots : ServerUpdate(s)
  \/ \E s \in Slots : ServerDelete(s)
  \/ \E s \in Slots : ServerAssignees(s)
  \/ \E s \in Slots : ServerReorder(s)
  \/ \E s \in Slots, withMembers \in BOOLEAN : ServerCreateBoard(s, withMembers)
  \/ \E s \in Slots : ServerRenameBoard(s)
  \/ \E s \in Slots : ServerDeleteBoard(s)
  \/ \E s \in Slots : ServerMemberOp(s)
  \/ \E s \in Slots : ServerMembers(s)
  \/ \E s \in Slots : DeliverCreate(s)
  \/ \E s \in Slots : DeliverUpdate(s)
  \/ \E s \in Slots : DeliverDelete(s)
  \/ \E s \in Slots : DeliverAssignees(s)
  \/ \E s \in Slots : DeliverReorder(s)
  \/ \E s \in Slots : DeliverCreateBoard(s)
  \/ \E s \in Slots : DeliverRenameBoard(s)
  \/ \E s \in Slots : DeliverDeleteBoard(s)
  \/ \E s \in Slots : DeliverMemberOp(s)
  \/ \E s \in Slots : DeliverMembers(s)
  \/ \E s \in Slots : FailAssignees(s)
  \/ \E s \in Slots : FailReorder(s)
  \/ \E s \in Slots : FailBoardOp(s)
  \/ \E s \in Slots : FailMemberOp(s)
  \/ \E s \in Slots : FailBoard(s)
  \/ TaskSettle

SpecMut == InitStore /\ [][MutNext]_vars

----------------------------------------------------------------------------
(* The Dashboard's render against the store: a handler is the closure of   *)
(* the render that created it, and its tasks are the tasks of that render. *)
(* A change of the store is rendered in a later step.                      *)

\* The Dashboard renders the tasks of the store: const { tasks } = useTaskStore()
Render ==
  /\ rendered # tasks
  /\ rendered' = tasks
  /\ UNCHANGED <<srvTasks, srvCreated, srvBoards, srvBoardsCreated, tasks, boardId, boards,
                 activeBoardId, currentUser, inflight, anyFailed, ops, last,
                 taskError, boardError, thrown, modal>>

\* A member who may modify drops the task at position from of lane st, as
\* rendered, at position to of the same lane -> handleReorderSameColumn(st,
\* orderedIds) of that render
ReorderRendered(st, from, to) ==
  /\ ops < MaxOps
  /\ canModify(activeBoard, currentUser)
  /\ from \in DOMAIN LaneIds(rendered, st)
  /\ to \in DOMAIN LaneIds(rendered, st)
  /\ from # to
  /\ HasFree(inflight)
  /\ ops' = ops + 1
  /\ LET orderedIds == moveWithinLane(LaneIds(rendered, st), from, to)
         r == reorderColumnBegin(activeBoardId, st, orderedIds)
     IN IF activeBoardId # NoBoard
        THEN /\ tasks' = handleReorderSameColumnApply(rendered, st, orderedIds)
             /\ inflight' = Put(Touched(inflight, tasks, tasks'), r)
             /\ last' = Ev("issue", r)
        ELSE /\ tasks' = tasks
             /\ inflight' = inflight
             /\ last' = Ev("blocked", r)
  /\ thrown' = FALSE
  /\ UNCHANGED <<srvTasks, srvCreated, srvBoards, srvBoardsCreated, boardId, boards,
                 activeBoardId, currentUser, anyFailed,
                 taskError, boardError, modal, rendered>>

\* SpecRender: one board, selected by its owner, the fetch of its tasks pending
RenderNext ==
  \/ Render
  \/ \E n \in Names : AddTask(n)
  \/ \E st \in Statuses, from \in 1..MaxLane, to \in 1..MaxLane : ReorderRendered(st, from, to)
  \/ \E s \in Slots : ServerCreate(s)
  \/ \E s \in Slots : DeliverCreate(s)
  \/ \E s \in Slots : ServerReorder(s)
  \/ \E s \in Slots : DeliverReorder(s)
  \/ \E s \in Slots : FailReorder(s)
  \/ \E s \in Slots : ServerFetch(s)
  \/ \E s \in Slots : DeliverFetch(s)
  \/ \E s \in Slots : FailTask(s)

SpecRender == InitLane /\ [][RenderNext]_vars

----------------------------------------------------------------------------
(* The round trip: a caller that awaits createTask(b, txt) and then        *)
(* fetchTasksByBoard(b), next to other calls of fetchTasksByBoard.  A call *)
(* of the round trip has origin "roundtrip" and carries, as history, the   *)
(* text the caller passed (text) and, once known, the id of the created    *)
(* task (task).                                                            *)

\* Faulty variant of createTaskName: the name is sent as typed
createTaskName_Untrimmed(txt) == NameOf(txt)

\* createTask: const trimmed = name.trim()
createTaskName(txt) == NameOf(trim(txt))

\* createTask(b, txt) up to the POST; if (!trimmed) throw new Error(...)
RoundTrip(b, txt) ==
  /\ ops < MaxOps
  /\ HasFree(inflight)
  /\ srvCreated + PendingCreates < MaxCreate
  /\ ops' = ops + 1
  /\ LET r == [Req("create", b, "none", createTaskName(txt), "none", "roundtrip", "none")
                 EXCEPT !.text = txt]
     IN IF trim(txt) = <<>>
        THEN /\ inflight' = inflight
             /\ last' = Ev("blocked", r)
             /\ taskError' = taskError
             /\ thrown' = TRUE
        ELSE /\ inflight' = Put(inflight, r)
             /\ last' = Ev("issue", r)
             /\ taskError' = NoError
             /\ thrown' = FALSE
  /\ UNCHANGED <<srvTasks, srvCreated, srvBoards, srvBoardsCreated, tasks, boardId, boards,
                 activeBoardId, currentUser, anyFailed,
                 boardError, modal, rendered>>

\* createTask, try branch, and the caller's next call: fetchTasksByBoard(b)
\* up to the GET
DeliverRoundTripCreate(s) ==
  /\ inflight[s].kind = "create" /\ inflight[s].phase = "ok"
  /\ inflight[s].origin = "roundtrip"
  /\ tasks' = createTaskApply(tasks, inflight[s].payload[1])
  /\ boardId' = fetchTasksByBoardBegin(tasks', boardId, inflight[s].board).boardId
  /\ inflight' = Put(Settle(s, tasks'),
                     [Req("fetch", inflight[s].board, mapApiTaskToUiTask(inflight[s].payload[1]).id,
                          "none", "none", "roundtrip", "none")
                        EXCEPT !.text = inflight[s].text])
  /\ last' = Ev("ok", inflight[s])
  /\ taskError' = NoError
  /\ thrown' = FALSE
  /\ UNCHANGED <<srvTasks, srvCreated, srvBoards, srvBoardsCreated, boards,
                 activeBoardId, currentUser, anyFailed, ops,
                 boardError, modal, rendered>>

\* fetchTasksByBoard, try branch, for the fetch of the round trip
DeliverRoundTripFetch(s) ==
  /\ inflight[s].origin = "roundtrip"
  /\ DeliverFetch(s)

\* Either call of the round trip fails: the store's catch; the caller stops
FailRoundTrip(s) ==
  /\ inflight[s].origin = "roundtrip"
  /\ FailTask(s)

\* SpecRound: the owner of board b1 has it selected and its tasks loaded
RoundNext ==
  \/ \E b \in BoardIds, txt \in Texts : RoundTrip(b, txt)
  \/ \E b \in BoardIds \cup {EmptyBoardId} : FetchTasksByBoard(b)
  \/ \E s \in Slots, withAssignees \in BOOLEAN : ServerCreateAs(s, withAssignees)
  \/ \E s \in Slots, withAssignees \in BOOLEAN : ServerFetchAs(s, withAssignees)
  \/ \E s \in Slots : DeliverRoundTripCreate(s)
  \/ \E s \in Slots : DeliverRoundTripFetch(s)
  \/ \E s \in Slots : FailRoundTrip(s)
  \/ \E s \in Slots : inflight[s].origin # "roundtrip" /\ DeliverFetch(s)
  \/ \E s \in Slots : inflight[s].origin # "roundtrip" /\ FailTask(s)

SpecRound == InitStore /\ [][RoundNext]_vars

----------------------------------------------------------------------------
(* The task dialog: TaskModal.handleSave, Dashboard.updateTask and the     *)
(* store's updateTask.  Of a deadline the model keeps its date and its     *)
(* time of day; time zones are left out.                                   *)

\* new Date(`${date}T${time}:${seconds}`).toISOString(), and back
\* (getFullYear .. getDate, getHours : getMinutes), for the values in use
IsoTable ==
  {[date |-> "d1", time |-> "10:00", seconds |-> "00", iso |-> "d1T10:00:00"],
   [date |-> "d1", time |-> "23:59", seconds |-> "00", iso |-> "d1T23:59:00"],
   [date |-> "d1", time |-> "23:59", seconds |-> "59", iso |-> "d1T23:59:59"]}

toISOString(date, time, seconds) ==
  (CHOOSE r \in IsoTable : r.date = date /\ r.time = time /\ r.seconds = seconds).iso

dateOf(iso) == (CHOOSE r \in IsoTable : r.iso = iso).date

timeOf(iso) == (CHOOSE r \in IsoTable : r.iso = iso).time

\* What the fields of the dialog can hold
TaskDescriptions == {Undefined, "D"}
TaskDeadlines == {Undefined, "d1T10:00:00", "d1T23:59:59"}
FormNames == {Empty, "X", "Y"}
FormDescriptions == {Empty, "D"}
FormDates == {Empty, "d1"}
FormTimes == {Empty, "10:00"}

\* The form's deadline fields, from task.deadline (the effect on [task.deadline])
deadlineFields(deadline) ==
  IF Truthy(deadline)
  THEN [deadlineDate |-> dateOf(deadline), deadlineTime |-> timeOf(deadline)]
  ELSE [deadlineDate |-> Empty, deadlineTime |-> Empty]

\* The dialog as it mounts for a task: useState(task.name || ""),
\* useState(task.description || ""), the deadline fields, task.assignedTo || []
OpenModal(task) ==
  [open |-> TRUE, task |-> task, isSaving |-> FALSE,
   name |-> IF Truthy(task.name) THEN task.name ELSE Empty,
   description |-> IF Truthy(task.description) THEN task.description ELSE Empty,
   deadlineDate |-> deadlineFields(task.deadline).deadlineDate,
   deadlineTime |-> deadlineFields(task.deadline).deadlineTime,
   assignedTo |-> task.assignedTo]

\* A cached task with the description and the deadline it carries
FullTask(t, description, deadline) ==
  [id |-> t.id, boardId |-> t.boardId, name |-> t.name, status |-> t.status,
   assignedTo |-> t.assignedTo, description |-> description, deadline |-> deadline]

\* onTaskClick={setSelectedTask}
OpenTask(t, description, deadline) ==
  /\ ~modal.open
  /\ HasTask(tasks, t)
  /\ modal' = OpenModal(FullTask(TaskOf(tasks, t), description, deadline))
  /\ UNCHANGED <<srvTasks, srvCreated, srvBoards, srvBoardsCreated, tasks, boardId, boards,
                 activeBoardId, currentUser, inflight, anyFailed, ops, last,
                 taskError, boardError, thrown, rendered>>

Editable == modal.open /\ ~modal.isSaving /\ canModify(activeBoard, currentUser)

\* The form's inputs: setName, setDescription, setDeadlineDate, setDeadlineTime
TypeName(n) ==
  /\ Editable
  /\ modal' = [modal EXCEPT !.name = n]
  /\ UNCHANGED <<srvTasks, srvCreated, srvBoards, srvBoardsCreated, tasks, boardId, boards,
                 activeBoardId, currentUser, inflight, anyFailed, ops, last,
                 taskError, boardError, thrown, rendered>>

TypeDescription(d) ==
  /\ Editable
  /\ modal' = [modal EXCEPT !.description = d]
  /\ UNCHANGED <<srvTasks, srvCreated, srvBoards, srvBoardsCreated, tasks, boardId, boards,
                 activeBoardId, currentUser, inflight, anyFailed, ops, last,
                 taskError, boardError, thrown, rendered>>

PickDate(d) ==
  /\ Editable
  /\ modal' = [modal EXCEPT !.deadlineDate = d]
  /\ UNCHANGED <<srvTasks, srvCreated, srvBoards, srvBoardsCreated, tasks, boardId, boards,
                 activeBoardId, currentUser, inflight, anyFailed, ops, last,
                 taskError, boardError, thrown, rendered>>

PickTime(t) ==
  /\ Editable
  /\ modal' = [modal EXCEPT !.deadlineTime = t]
  /\ UNCHANGED <<srvTasks, srvCreated, srvBoards, srvBoardsCreated, tasks, boardId, boards,
                 activeBoardId, currentUser, inflight, anyFailed, ops, last,
                 taskError, boardError, thrown, rendered>>

\* toggleMember: prev.includes(userId) ? prev.filter(...) : [...prev, userId]
toggleMember(prev, u) ==
  IF \E i \in DOMAIN prev : prev[i] = u
  THEN SelectSeq(prev, LAMBDA id : id # u)
  ELSE Append(prev, u)

ToggleMember(u) ==
  /\ Editable
  /\ modal' = [modal EXCEPT !.assignedTo = toggleMember(modal.assignedTo, u)]
  /\ UNCHANGED <<srvTasks, srvCreated, srvBoards, srvBoardsCreated, tasks, boardId, boards,
                 activeBoardId, currentUser, inflight, anyFailed, ops, last,
                 taskError, boardError, thrown, rendered>>

\* handleSave: the updates it collects from the form
handleSaveUpdates(m) ==
  LET hasDate == m.deadlineDate # Empty
      hasTime == m.deadlineTime # Empty
      clears == Truthy(m.task.deadline) /\ (~hasDate \/ ~hasTime)
  IN Updates(m.name # m.task.name, m.name,
             m.description # m.task.description, m.description,
             hasDate \/ clears,
             IF hasDate /\ hasTime THEN toISOString(m.deadlineDate, m.deadlineTime, "00")
             ELSE IF hasDate THEN toISOString(m.deadlineDate, "23:59", "59")
             ELSE Null)

\* Object.keys(updates).length > 0
hasKeys(updates) == updates.hasName \/ updates.hasDescription \/ updates.hasDeadline

\* handleSave: same = prev.length === next.length && prev.every((id) => next.includes(id))
sameAssignees(prev, next) ==
  /\ Len(prev) = Len(next)
  /\ \A i \in DOMAIN prev : \E j \in DOMAIN next : next[j] = prev[i]

\* Dashboard.updateTask: the store's updateTask is called
\* if (updates.name || updates.description || updates.deadline || updates.assignedTo)
callsUpdateTaskInStore(updates) ==
  Truthy(updates.name) \/ Truthy(updates.description) \/ Truthy(updates.deadline)

\* Dashboard.updateTask: setSelectedTask({ ...selectedTask, ...updates }), and
\* the dialog's effect on [task.deadline]
mergeSelectedTask(m, updates) ==
  LET merged == [m.task EXCEPT
                   !.name = IF updates.hasName THEN updates.name ELSE @,
                   !.description = IF updates.hasDescription THEN updates.description ELSE @,
                   !.deadline = IF updates.hasDeadline THEN updates.deadline ELSE @]
  IN IF merged.deadline = m.task.deadline
     THEN [m EXCEPT !.task = merged]
     ELSE [m EXCEPT !.task = merged,
                    !.deadlineDate = deadlineFields(merged.deadline).deadlineDate,
                    !.deadlineTime = deadlineFields(merged.deadline).deadlineTime]

\* handleSave once onUpdate is behind it: setTaskAssignees if the assignees
\* changed, up to its PATCH, else onClose()
afterOnUpdate(m, infl) ==
  IF ~sameAssignees(m.task.assignedTo, m.assignedTo)
  THEN [modal |-> m,
        inflight |-> Put(infl, [Req("assignees", NoBoard, m.task.id, "none", "none", "save", "none")
                                  EXCEPT !.payload = m.assignedTo]),
        sent |-> TRUE]
  ELSE [modal |-> NoModal, inflight |-> infl, sent |-> FALSE]

\* The PATCH tasks/{id} a save sends
SaveReq(m, updates) ==
  [Req("update", NoBoard, m.task.id, IF updates.hasName THEN updates.name ELSE "none",
       "none", "save", "none")
     EXCEPT !.body = updateTaskPayload(updates)]

\* The Save button: handleSave up to its first await
Save ==
  /\ ops < MaxOps
  /\ Editable
  /\ HasFree(inflight)
  /\ ops' = ops + 1
  /\ thrown' = FALSE
  /\ LET updates == handleSaveUpdates(modal)
         saving == [modal EXCEPT !.isSaving = TRUE]
     IN IF hasKeys(updates) /\ callsUpdateTaskInStore(updates)
        THEN /\ inflight' = Put(inflight, SaveReq(modal, updates))
             /\ last' = Ev("issue", SaveReq(modal, updates))
             /\ taskError' = NoError
             /\ modal' = saving
        ELSE LET m == IF hasKeys(updates) THEN mergeSelectedTask(saving, updates) ELSE saving
                 r == afterOnUpdate(m, inflight)
             IN /\ inflight' = r.inflight
                /\ modal' = r.modal
                /\ last' = Ev(IF r.sent THEN "issue" ELSE "return",
                              [NoReq EXCEPT !.kind = IF r.sent THEN "assignees" ELSE "save",
                                            !.origin = "save",
                                            !.body = updateTaskPayload(updates)])
                /\ taskError' = taskError
  /\ UNCHANGED <<srvTasks, srvCreated, srvBoards, srvBoardsCreated, tasks, boardId, boards,
                 activeBoardId, currentUser, anyFailed,
                 boardError, rendered>>

\* updateTask, try branch, then Dashboard.updateTask and the rest of handleSave
DeliverSaveUpdate(s) ==
  /\ inflight[s].kind = "update" /\ inflight[s].phase = "ok" /\ inflight[s].origin = "save"
  /\ tasks' = updateTaskApply(tasks, inflight[s].task, inflight[s].payload[1])
  /\ LET r == afterOnUpdate(mergeSelectedTask(modal, inflight[s].body), Settle(s, tasks'))
     IN /\ inflight' = r.inflight
        /\ modal' = r.modal
  /\ last' = Ev("ok", inflight[s])
  /\ thrown' = FALSE
  /\ UNCHANGED <<srvTasks, srvCreated, srvBoards, srvBoardsCreated, boardId, boards,
                 activeBoardId, currentUser, anyFailed, ops,
                 taskError, boardError, rendered>>

\* setTaskAssignees, try branch, then onClose()
DeliverSaveAssignees(s) ==
  /\ inflight[s].kind = "assignees" /\ inflight[s].phase = "ok" /\ inflight[s].origin = "save"
  /\ tasks' = setTaskAssigneesApply(tasks, inflight[s].task, inflight[s].payload)
  /\ inflight' = Settle(s, tasks')
  /\ modal' = NoModal
  /\ last' = Ev("ok", inflight[s])
  /\ thrown' = FALSE
  /\ UNCHANGED <<srvTasks, srvCreated, srvBoards, srvBoardsCreated, boardId, boards,
                 activeBoardId, currentUser, anyFailed, ops,
                 taskError, boardError, rendered>>

\* A call of the save fails: the store's catch, Dashboard.updateTask's catch
\* (rethrow), handleSave's catch (the dialog stays open) and finally
FailSave(s) ==
  /\ inflight[s].kind \in {"update", "assignees"} /\ inflight[s].phase = "sent"
  /\ inflight[s].origin = "save"
  /\ inflight' = Clear(inflight, s)
  /\ modal' = [modal EXCEPT !.isSaving = FALSE]
  /\ last' = Ev("fail", inflight[s])
  /\ anyFailed' = TRUE
  /\ taskError' = taskCatch(inflight[s].kind, taskError).error
  /\ thrown' = taskCatch(inflight[s].kind, taskError).thrown
  /\ UNCHANGED <<srvTasks, srvCreated, srvBoards, srvBoardsCreated, tasks, boardId, boards,
                 activeBoardId, currentUser, ops,
                 boardError, rendered>>

\* SpecSave: the owner of board b1 has it selected and its tasks loaded,
\* opens a task and saves the dialog
SaveNext ==
  \/ \E t \in TaskIds, d \in TaskDescriptions, dl \in TaskDeadlines : OpenTask(t, d, dl)
  \/ \E n \in FormNames : TypeName(n)
  \/ \E d \in FormDescriptions : TypeDescription(d)
  \/ \E d \in FormDates : PickDate(d)
  \/ \E t \in FormTimes : PickTime(t)
  \/ \E u \in {"u2"} : ToggleMember(u)
  \/ ops < MaxSaves /\ Save
  \/ \E s \in Slots : ServerUpdate(s)
  \/ \E s \in Slots : ServerAssignees(s)
  \/ \E s \in Slots : DeliverSaveUpdate(s)
  \/ \E s \in Slots : DeliverSaveAssignees(s)
  \/ \E s \in Slots : FailSave(s)

SpecSave == InitStore /\ [][SaveNext]_vars

----------------------------------------------------------------------------
(* Claims about the task cache (Spec) *)

ServerHas(t) == HasTask(srvTasks, t.id) /\ TaskOf(srvTasks, t.id) = t

\* C1: in every quiescent state reached with no failed network call, every
\* task cached for the active board equals the backend's copy of that task.
C1_QuiescentCacheMatchesServer ==
  (Quiescent /\ ~anyFailed) =>
    \A i \in DOMAIN tasks : tasks[i].boardId = activeBoardId => ServerHas(tasks[i])

FailedStatus == last.ev = "fail" /\ last.req.kind = "status"

C3_StaleFetchIgnored ==
  [][\A s \in Slots :
       (DeliverFetch(s) /\ inflight[s].board # activeBoardId) => tasks' = tasks]_vars

\* C4: every cached task belongs to the board the task store records as its board.
C4_TasksBelongToCacheBoard ==
  \A i \in DOMAIN tasks : tasks[i].boardId = boardId

IssuesStatus(t, st) ==
  \E s \in Slots :
    /\ inflight[s].kind = "none"
    /\ inflight'[s].kind = "status" /\ inflight'[s].phase = "sent"
    /\ inflight'[s].task = t /\ inflight'[s].status = st

\* Every cached entry of task t has status st
CachedStatusIs(cur, t, st) ==
  HasTask(cur, t) /\ \A i \in DOMAIN cur : cur[i].id = t => cur[i].status = st

MatchingDrop(t, st) ==
  Drop(t, st) /\ canModify(activeBoard, currentUser) /\ CachedStatusIs(tasks, t, st)

----------------------------------------------------------------------------
(* Claims about permission resolution (SpecPerm) *)

Listed(board, u) == Has(board.members, LAMBDA m : m.userId = u)

\* C7: a user who is neither the owner of a board nor listed in its members
\* resolves to role VIEWER with canModify false.
C7_DefaultDeny ==
  \A i \in DOMAIN boards, u \in Users :
    (u # boards[i].ownerId /\ ~Listed(boards[i], u)) =>
      (userRole(boards[i], u) = "VIEWER" /\ ~canModify(boards[i], u))

C7_Witness ==
  /\ last.ev = "blocked"
  /\ currentUser # activeBoard.ownerId
  /\ ~Listed(activeBoard, currentUser)
  /\ Len(activeBoard.members) > 0

\* C8: isOwner holds exactly for the user whose id is the board's ownerId, and
\* that user resolves to OWNER with canModify true whatever members contains.
C8_OwnerOverlay ==
  \A i \in DOMAIN boards, u \in Users :
    /\ isOwner(boards[i], u) <=> (u = boards[i].ownerId)
    /\ (u = boards[i].ownerId) =>
         (userRole(boards[i], u) = "OWNER" /\ canModify(boards[i], u))

\* C9: a drop by a user whose canModify is false issues no network call and
\* leaves the task cache unchanged; a drop by a member with role EDITOR issues
\* the status update.
C9_DropGated ==
  [][\A t \in TaskIds, st \in Statuses : Drop(t, st) =>
       /\ ~canModify(activeBoard, currentUser) =>
            (inflight' = inflight /\ tasks' = tasks /\ boardId' = boardId)
       /\ (Listed(activeBoard, currentUser) /\ userRole(activeBoard, currentUser) = "EDITOR") =>
            IssuesStatus(t, st)]_vars

C9_Witness ==
  /\ last.ev = "blocked"
  /\ last.req.status # last.req.pre
  /\ ~canModify(activeBoard, currentUser)
  /\ Quiescent

----------------------------------------------------------------------------
(* Claims about the board cache (SpecBoard) *)

MembersOf(bs, id) == Find(bs, LAMBDA b : b.id = id).members

\* C10: a board that is cached when a fetchBoards response arrives, and that
\* the response returns without a members field, keeps its cached members.
C10_FetchKeepsCachedMembers ==
  [][\A s \in Slots : DeliverBoards(s) =>
       \A i \in DOMAIN inflight[s].payload :
         LET b == inflight[s].payload[i]
         IN (~b.hasMembers /\ Has(boards, LAMBDA p : p.id = b.id)) =>
              MembersOf(boards', b.id) = MembersOf(boards, b.id)]_vars

C10_Witness ==
  /\ last.ev = "ok" /\ last.req.kind = "boards"
  /\ \E i \in DOMAIN last.req.payload :
       /\ ~last.req.payload[i].hasMembers
       /\ Has(boards, LAMBDA p : p.id = last.req.payload[i].id)
       /\ Len(MembersOf(boards, last.req.payload[i].id)) > 0

\* C11: after a successful fetchBoards that returned a non-empty list,
\* activeBoardId is set, to a board of the list.
C11_FetchSelectsBoard ==
  (last.ev = "ok" /\ last.req.kind = "boards" /\ last.req.payload # <<>>) =>
    (activeBoardId # NoBoard /\ activeBoardId \in Ids(boards))

C18_DeleteSelectsNext ==
  [][\A s \in Slots : DeliverDeleteBoard(s) =>
       /\ ~Has(boards', LAMBDA b : b.id = inflight[s].board)
       /\ IF activeBoardId = inflight[s].board
          THEN activeBoardId' = firstBoardId(boards')
          ELSE activeBoardId' = activeBoardId]_vars

\* C19: once the deletion of a board has been applied, the task cache holds no
\* task of that board.
C19_DeletedBoardTasksEvicted ==
  (last.ev = "ok" /\ last.req.kind = "deleteBoard") =>
    \A i \in DOMAIN tasks : tasks[i].boardId # last.req.board

\* C20: while no user is signed in, boards is empty, activeBoardId is null and
\* the task slice is empty.
C20_SignOutClearsCaches ==
  currentUser = NoUser => (boards = <<>> /\ activeBoardId = NoBoard /\ tasks = <<>>)

\* C14: createTask writes to tasks only when the backend has answered, and
\* then puts the created task, under the id the backend gave it, at index 0
\* of the list as it is by then; issuing the call, the backend's step and a
\* failed call leave tasks as it is.
C14_CreatePrependsOnResponse ==
  [][/\ \A n \in Names : AddTask(n) => tasks' = tasks
     /\ \A s \in Slots : ServerCreate(s) => tasks' = tasks
     /\ \A s \in Slots : (FailTask(s) /\ inflight[s].kind = "create") => tasks' = tasks
     /\ \A s \in Slots : DeliverCreate(s) =>
          /\ tasks'[1].id = inflight[s].payload[1].id
          /\ Tail(tasks') = tasks]_vars

C14_Witness ==
  /\ last.ev = "ok" /\ last.req.kind = "create"
  /\ Len(tasks) >= 2
  /\ tasks[1].id = last.req.payload[1].id
  /\ tasks[2].id # tasks[1].id

\* C15: deleteTask removes the task from tasks only when the backend has
\* confirmed; issuing the call, the backend's step and a failed call leave
\* tasks as it is.
C15_DeleteAfterConfirmation ==
  [][/\ \A t \in TaskIds : DeleteTask(t) => tasks' = tasks
     /\ \A s \in Slots : ServerDelete(s) => tasks' = tasks
     /\ \A s \in Slots : (FailTask(s) /\ inflight[s].kind = "delete") => tasks' = tasks
     /\ \A s \in Slots : DeliverDelete(s) => ~HasTask(tasks', inflight[s].task)]_vars

C15_Witness ==
  \E s \in Slots :
    /\ inflight[s].kind = "delete" /\ inflight[s].phase = "ok"
    /\ ~HasTask(srvTasks, inflight[s].task)
    /\ HasTask(tasks, inflight[s].task)

ReorderIssued(st, ids) ==
  \E s \in Slots :
    /\ inflight[s].kind = "none"
    /\ inflight'[s].kind = "reorder" /\ inflight'[s].phase = "sent"
    /\ inflight'[s].status = st /\ inflight'[s].payload = ids

\* C12: a same-lane reorder leaves the lane's cached order equal to the
\* previous order with the moved task removed and reinserted at the target
\* position, and reorderColumn is called with exactly that id sequence.
C12_ReorderMovesTask ==
  [][\A st \in Statuses, from \in 1..MaxLane, to \in 1..MaxLane : Reorder(st, from, to) =>
       /\ LaneIds(tasks', st) = moveWithinLane(LaneIds(tasks, st), from, to)
       /\ ReorderIssued(st, moveWithinLane(LaneIds(tasks, st), from, to))]_vars

CrossLaneDrop(t, st) ==
  /\ Drop(t, st)
  /\ canModify(activeBoard, currentUser)
  /\ StatusOf(tasks, t) # st

NoReorderIssued ==
  \A s \in Slots : inflight'[s].kind = "reorder" => inflight'[s] = inflight[s]

\* C13 (as claimed): a cross-lane drop issues a status-change call for the
\* moved task, and by the time its handler has finished a reorderColumn call.
C13_CrossLaneIssuesReorder ==
  [][/\ \A t \in TaskIds, st \in Statuses : CrossLaneDrop(t, st) => IssuesStatus(t, st)
     /\ \A s \in Slots :
          (DeliverStatus(s) /\ inflight[s].origin = "drop" /\ inflight[s].pre # inflight[s].status) =>
            \E r \in Slots : inflight'[r].kind = "reorder"]_vars

\* C13 (amended): a cross-lane drop issues a status-change call for the moved
\* task and, when that call has succeeded, a fetch of the tasks of the board
\* that was active at the drop; neither step issues a reorderColumn call.
C13_CrossLaneIssuesStatusThenFetch ==
  [][/\ \A t \in TaskIds, st \in Statuses :
          CrossLaneDrop(t, st) => (IssuesStatus(t, st) /\ NoReorderIssued)
     /\ \A s \in Slots : (DeliverStatus(s) /\ inflight[s].origin = "drop") =>
          /\ NoReorderIssued
          /\ inflight[s].board # NoBoard =>
               \E r \in Slots :
                 /\ r = s \/ inflight[r].kind = "none"
                 /\ inflight'[r].kind = "fetch" /\ inflight'[r].phase = "sent"
                 /\ inflight'[r].board = inflight[s].board]_vars

C13_Witness ==
  /\ last.ev = "ok" /\ last.req.kind = "status" /\ last.req.origin = "drop"
  /\ last.req.pre # last.req.status /\ last.req.pre # "absent"
  /\ StatusOf(tasks, last.req.task) = last.req.status
  /\ \E r \in Slots : inflight[r].kind = "fetch" /\ inflight[r].phase = "sent"
  /\ \A r \in Slots : inflight[r].kind # "reorder"

\* C26: when an updateTask response has been applied, every cached entry of
\* its task carries the name and the status of that response, whichever of
\* the calls in flight together was issued first.
C26_LastResponseWins ==
  (last.ev = "ok" /\ last.req.kind = "update") =>
    \A i \in DOMAIN tasks : tasks[i].id = last.req.task =>
      /\ tasks[i].name = last.req.payload[1].name
      /\ tasks[i].status = last.req.payload[1].status

C26_Witness ==
  /\ last.ev = "ok" /\ last.req.kind = "update"
  /\ Quiescent /\ ~anyFailed
  /\ HasTask(tasks, last.req.task) /\ HasTask(srvTasks, last.req.task)
  /\ TaskOf(tasks, last.req.task).name = last.req.payload[1].name
  /\ TaskOf(srvTasks, last.req.task).name # last.req.payload[1].name

\* C28: applying an updateTask response leaves the cached status of its task
\* as it was just before.
C28_UpdateKeepsStatus ==
  [][\A s \in Slots : DeliverUpdate(s) =>
       StatusOf(tasks', inflight[s].task) = StatusOf(tasks, inflight[s].task)]_vars

\* C30: whenever activeBoardId is set it is the id of a cached board.
C30_ActiveBoardCached ==
  activeBoardId # NoBoard => activeBoardId \in Ids(boards)

Owners(board) == {i \in DOMAIN board.members : board.members[i].role = "OWNER"}

NoCallIssued ==
  \A s \in Slots : inflight'[s].kind = inflight[s].kind /\ inflight'[s].phase = inflight[s].phase

\* C23 (as claimed): fetchTasksByBoard with an empty boardId issues no call
\* and leaves tasks and the recorded board as they are.
C23_EmptyFetchIsNoOp ==
  [][FetchTasksByBoard(EmptyBoardId) =>
       (NoCallIssued /\ tasks' = tasks /\ boardId' = boardId)]_vars

\* C23 (amended): fetchTasksByBoard with an empty boardId issues no call and
\* clears the cache: tasks becomes empty and the recorded board null.
C23_EmptyFetchClears ==
  [][FetchTasksByBoard(EmptyBoardId) =>
       (NoCallIssued /\ tasks' = <<>> /\ boardId' = NoBoard)]_vars

C23_Witness ==
  /\ last.ev = "return" /\ last.req.kind = "fetch" /\ last.req.board = EmptyBoardId
  /\ last.req.pre = "loaded"
  /\ tasks = <<>> /\ boardId = NoBoard

----------------------------------------------------------------------------
(* Claims about the mutation methods (SpecMut, SpecLane) *)

TaskMutationKinds == {"create", "update", "status", "delete", "assignees", "reorder"}

BoardMutationKinds == {"createBoard", "renameBoard", "deleteBoard"} \cup MemberKinds

\* The last client step is the failure of a network call of a mutation method
\* (for the three member methods, of either of their two calls)
FailedMutation ==
  /\ last.ev = "fail"
  /\ \/ last.req.kind \in TaskMutationKinds \cup BoardMutationKinds
     \/ last.req.kind = "members" /\ last.req.origin \in MemberKinds

\* The error state of the store the failed method belongs to
storeErrorOf(req) == IF req.kind \in TaskMutationKinds THEN taskError ELSE boardError

\* C21: when a network call of a mutation method of either store fails, the
\* method has set its store's error state to a non-null message and has
\* rethrown the error to its caller.
C21_FailedMutationSetsErrorAndRethrows ==
  FailedMutation => thrown /\ storeErrorOf(last.req) # NoError

\* C27: when the network call of reorderColumn fails, the cached tasks, and
\* with them the order the reorder has put the lane in, are left as they
\* are, and the error is rethrown to the caller.
C27_FailedReorderKeepsOrder ==
  [][\A s \in Slots : FailReorder(s) => tasks' = tasks /\ thrown']_vars

\* A reorder has failed with the lane still in the order that was sent, which
\* is not the backend's order, and the caller has the error
C27_Witness ==
  /\ last.ev = "fail" /\ last.req.kind = "reorder"
  /\ thrown
  /\ LaneIds(tasks, last.req.status) = last.req.payload
  /\ LaneIds(srvTasks, last.req.status) # last.req.payload
  /\ Len(last.req.payload) > 1

----------------------------------------------------------------------------
(* Claims about the task dialog (SpecSave) *)

\* The dialog of a task that has a deadline is saved with the date and the
\* time field both empty
ClearedDeadlineSave ==
  /\ Save
  /\ Truthy(modal.task.deadline)
  /\ modal.deadlineDate = Empty /\ modal.deadlineTime = Empty

\* A PATCH tasks/{id} is sent whose body has the deadline field, set to null
DeadlineClearSent ==
  \E s \in Slots :
    /\ inflight[s].kind = "none"
    /\ inflight'[s].kind = "update" /\ inflight'[s].phase = "sent"
    /\ inflight'[s].body.hasDeadline /\ inflight'[s].body.deadline = Null

\* C22: saving a task that has a deadline with the date and the time field
\* both cleared sends an update request whose deadline field is present and
\* null.
C22_ClearedDeadlineIsSent ==
  [][ClearedDeadlineSave => DeadlineClearSent]_vars

----------------------------------------------------------------------------
(* Claims about the round trip (SpecRound) *)

----------------------------------------------------------------------------
(* Claims about the render (SpecRender) *)

\* C29: a same-lane reorder leaves the set of cached tasks as it is: every
\* task cached before handleReorderSameColumn runs is cached after it, and
\* none is added.
C29_ReorderKeepsTaskSet ==
  [][\A st \in Statuses, from \in 1..MaxLane, to \in 1..MaxLane :
       ReorderRendered(st, from, to) => Ids(tasks') = Ids(tasks)]_vars

====
